---- MODULE Spec2Model ----
(***************************************************************************)
(* A model of the docdb-autoscaler reconciliation engine                   *)
(* (pkg/autoscaling/autoscaling.go and the Lambda entry point main.go).    *)
(*                                                                         *)
(* The directory (DocumentDB / RDS control plane), the metric source and   *)
(* the notifier are external: their answers are inputs of each attempt.    *)
(* A float64 metric is modelled as an exact rational <<num, den>>; IEEE    *)
(* rounding of the product is outside the model.                           *)
(***************************************************************************)
EXTENDS Integers, Sequences, FiniteSets, TLC

VARIABLES
    instances,  \* the directory's listing of the cluster, in listing order
    d,          \* the DocumentDB struct of the running invocation
    maxRetries, \* handler: MAX_RETRIES of the running invocation
    pc,         \* "idle" | "retry" | "sleep" | "done": position in processScaling
    attempt,    \* executeWithRetry: the loop counter
    initialBackoff, \* handler: INITIAL_BACKOFF of the running invocation, in seconds
    backoff,    \* executeWithRetry: the next sleep, in seconds
    calls,      \* history: for each action(ctx) call of the invocation, whether it failed
    sleeps,     \* history: the sleeps of the running invocation, in order
    result,     \* what the handler returned: "none" | "ok" | "failed" | "config"
    last,       \* history: what the last attempt read, decided and called
    prev,       \* history: the last attempt of the previous invocation
    calc,       \* the capacity calculator's inputs and output (SpecCalc)
    environ,    \* the environment variables the handler was started with (SpecConfig)
    ident,      \* the identifier builder's inputs and output (SpecIdent)
    procs,      \* the invocations that run at the same time (SpecConcurrent)
    overlapped, \* history: an invocation read the inventory while another was running
    readers0    \* history: the number of readers before the first invocation

vars == <<instances, d, maxRetries, pc, attempt, initialBackoff, backoff, calls, sleeps,
          result, last, prev, calc, environ, ident, procs, overlapped, readers0>>

----------------------------------------------------------------------------
(* Bounds of the model.                                                    *)

MaxInitReaders == 1

MaxCap == 3

MaxDelta == 2

MaxRetries == 2

\* MAX_RETRIES of the timer invocations run one after the other (SpecToggle)
ToggleRetries == 1

MaxCalcCurrent == 4
MaxCalcCap == 5
MaxCalcDen == 2

----------------------------------------------------------------------------
(* Arithmetic helpers: math.Floor and math.Ceil of the rational a/b, b > 0 *)

Floor(a, b) == a \div b

Ceil(a, b) == -((-a) \div b)

----------------------------------------------------------------------------
(* CalculateDesiredCapacity.  dd is the DocumentDB struct,                 *)
(* currentMetricValue the rational <<num, den>> with den > 0.  A zero      *)
(* TargetValue makes the quotient +Inf (positive numerator), -Inf or NaN   *)
(* (0/0); every comparison with NaN is false and int(NaN) is               *)
(* implementation-dependent in Go: nanInt is the value the build gives.    *)

\* proportionalCapacity as <<numerator, denominator>>, denominator >= 0
ProportionalCapacity(dd, currentMetricValue, currentCapacity) ==
    LET n == currentMetricValue[1] * currentCapacity
        q == currentMetricValue[2] * dd.TargetValue
    IN  IF q < 0 THEN <<-n, -q>> ELSE <<n, q>>

\* The mutant forgets the upper bound.
CalculateDesiredCapacity_NoMaxClamp(dd, currentMetricValue, currentCapacity, nanInt) ==
    LET p == ProportionalCapacity(dd, currentMetricValue, currentCapacity)
        desiredCapacity == IF p[1] > currentCapacity * p[2]
                           THEN Ceil(p[1], p[2]) ELSE Floor(p[1], p[2])
    IN  IF p[2] = 0
        THEN IF p[1] > 0 THEN dd.MaxCapacity
             ELSE IF p[1] < 0 THEN dd.MinCapacity ELSE nanInt
        ELSE IF desiredCapacity < dd.MinCapacity THEN dd.MinCapacity
        ELSE desiredCapacity

\* The mutant rounds down in both directions.
CalculateDesiredCapacity_AlwaysFloor(dd, currentMetricValue, currentCapacity, nanInt) ==
    LET p == ProportionalCapacity(dd, currentMetricValue, currentCapacity)
        desiredCapacity == Floor(p[1], p[2])
    IN  IF p[2] = 0
        THEN IF p[1] > 0 THEN dd.MaxCapacity
             ELSE IF p[1] < 0 THEN dd.MinCapacity ELSE nanInt
        ELSE IF desiredCapacity < dd.MinCapacity THEN dd.MinCapacity
        ELSE IF desiredCapacity > dd.MaxCapacity THEN dd.MaxCapacity
        ELSE desiredCapacity

CalculateDesiredCapacity(dd, currentMetricValue, currentCapacity, nanInt) ==
    LET p == ProportionalCapacity(dd, currentMetricValue, currentCapacity)
        desiredCapacity == IF p[1] > currentCapacity * p[2]
                           THEN Ceil(p[1], p[2]) ELSE Floor(p[1], p[2])
    IN  IF p[2] = 0
        THEN IF p[1] > 0 THEN dd.MaxCapacity
             ELSE IF p[1] < 0 THEN dd.MinCapacity ELSE nanInt
        ELSE IF desiredCapacity < dd.MinCapacity THEN dd.MinCapacity
        ELSE IF desiredCapacity > dd.MaxCapacity THEN dd.MaxCapacity
        ELSE desiredCapacity

----------------------------------------------------------------------------
(* The directory.  An instance of the listing is a record                  *)
(*   [id, status, tags, isWriter]:                                         *)
(* id stands for DBInstanceIdentifier and DBInstanceArn, tags is the       *)
(* TagList ListTagsForResource returns for it, isWriter is the             *)
(* IsClusterWriter flag of its DBClusterMember.  CreateDBInstance lists a  *)
(* new instance at the end, DeleteDBInstance takes the instance off the    *)
(* listing.                                                                *)

MetricTagKey == "docdb-autoscaler-created"

SchedulerTagKey == "docdb-autoscaler-scheduler"

Tag(k, v) == [Key |-> k, Value |-> v]

NoId == 0

APIs == {"DescribeDBInstances", "DescribeDBClusters", "ListTagsForResource",
         "CreateDBInstance", "CreateDBInstanceArn", "AddTagsToResource",
         "DeleteDBInstance", "GetMetricStatistics", "Datapoints", "Publish"}

(* The running attempt w: the directory (inst), the answers the external   *)
(* services will give (in), the configuration (d), the calls made so far   *)
(* (n: per API; createdIds, tagCalls, deleteCalls, notes: with arguments)  *)
(* and what the attempt read and decided (current, desired, branch,        *)
(* replicas).                                                              *)

R(w, err, val) == [w |-> w, err |-> err, val |-> val]

\* The next call of api fails: the fault plan names it, or names all calls.
Fails(w, api) == <<api, w.n[api] + 1>> \in w.in.faults \/ <<api, 0>> \in w.in.faults

Count(w, api) == [w EXCEPT !.n[api] = @ + 1]

IdsOf(inst) == {inst[i].id : i \in 1..Len(inst)}

NewId(inst) == CHOOSE i \in 1..(Len(inst) + 1) :
                  /\ i \notin IdsOf(inst)
                  /\ \A j \in 1..(i - 1) : j \in IdsOf(inst)

TagsOf(inst, id) == UNION {inst[i].tags : i \in {j \in 1..Len(inst) : inst[j].id = id}}

DescribeDBInstances(w) ==
    IF Fails(w, "DescribeDBInstances")
    THEN R(Count(w, "DescribeDBInstances"), TRUE, <<>>)
    ELSE R(Count(w, "DescribeDBInstances"), FALSE, w.inst)

DescribeDBClusters(w) ==
    IF Fails(w, "DescribeDBClusters")
    THEN R(Count(w, "DescribeDBClusters"), TRUE, <<>>)
    ELSE R(Count(w, "DescribeDBClusters"), FALSE,
           [i \in 1..Len(w.inst) |->
               [DBInstanceIdentifier |-> w.inst[i].id,
                IsClusterWriter |-> w.inst[i].isWriter]])

ListTagsForResource(w, instance) ==
    IF Fails(w, "ListTagsForResource")
    THEN R(Count(w, "ListTagsForResource"), TRUE, {})
    ELSE R(Count(w, "ListTagsForResource"), FALSE, TagsOf(w.inst, instance.id))

CreateDBInstance(w) ==
    IF Fails(w, "CreateDBInstance")
    THEN R(Count(w, "CreateDBInstance"), TRUE, NoId)
    ELSE LET id == NewId(w.inst)
             w1 == Count(w, "CreateDBInstance")
         IN  R([w1 EXCEPT !.inst = Append(@, [id |-> id, status |-> "creating",
                                               tags |-> {}, isWriter |-> FALSE]),
                          !.createdIds = Append(@, id)],
               FALSE, id)

AddTagsToResource(w, id, key) ==
    LET w1 == Count(w, "AddTagsToResource")
        ok == ~Fails(w, "AddTagsToResource")
        w2 == [w1 EXCEPT !.tagCalls = Append(@, [id |-> id, key |-> key, value |-> "true", ok |-> ok])]
    IN  IF ~ok
        THEN R(w2, TRUE, NoId)
        ELSE R([w2 EXCEPT !.inst = [i \in 1..Len(@) |->
                             IF @[i].id = id
                             THEN [@[i] EXCEPT !.tags = @ \cup {Tag(key, "true")}]
                             ELSE @[i]]],
               FALSE, NoId)

DeleteDBInstance(w, id) ==
    LET w1 == Count(w, "DeleteDBInstance")
        ok == ~Fails(w, "DeleteDBInstance")
        w2 == [w1 EXCEPT !.deleteCalls = Append(@, [id |-> id, ok |-> ok])]
    IN  IF ~ok
        THEN R(w2, TRUE, NoId)
        ELSE R([w2 EXCEPT !.inst = SelectSeq(@, LAMBDA x : x.id # id)], FALSE, NoId)

\* The notifier: a failed publish is an error returned to the caller.
SendNotification(w, kind, count) ==
    LET ok == ~Fails(w, "Publish")
    IN  R([Count(w, "Publish") EXCEPT !.notes = Append(@, [kind |-> kind, count |-> count, ok |-> ok])],
          ~ok, NoId)

SendScaleOutNotification(w, replicasAdded) == SendNotification(w, "scale-out", replicasAdded)

SendScaleInNotification(w, replicasRemoved) == SendNotification(w, "scale-in", replicasRemoved)

\* The notifier offers it; neither the handler nor the engine calls it.
SendFailureNotification(w) == SendNotification(w, "failure", 0)

----------------------------------------------------------------------------
(* Topology resolver and ownership tagger.                                 *)

GetWriterInstanceIdentifier(w) ==
    LET r == DescribeDBClusters(w)
        writers == SelectSeq(r.val, LAMBDA m : m.IsClusterWriter)
    IN  IF r.err THEN R(r.w, TRUE, NoId)
        ELSE IF writers = <<>> THEN R(r.w, TRUE, NoId)
        ELSE R(r.w, FALSE, writers[1].DBInstanceIdentifier)

GetReaderInstances(w) ==
    LET r1 == DescribeDBInstances(w)
        r2 == GetWriterInstanceIdentifier(r1.w)
    IN  IF r1.err THEN R(r1.w, TRUE, <<>>)
        ELSE IF r2.err THEN R(r2.w, TRUE, <<>>)
        ELSE R(r2.w, FALSE, SelectSeq(r1.val, LAMBDA x : x.id # r2.val))

GetCurrentCapacity(w) ==
    LET r == GetReaderInstances(w)
    IN  IF r.err THEN R(r.w, TRUE, 0) ELSE R(r.w, FALSE, Len(r.val))

GetWriterInstance(w) ==
    LET r1 == DescribeDBInstances(w)
        r2 == GetWriterInstanceIdentifier(r1.w)
        found == SelectSeq(r1.val, LAMBDA x : x.id = r2.val)
    IN  IF r1.err THEN R(r1.w, TRUE, NoId)
        ELSE IF r2.err THEN R(r2.w, TRUE, NoId)
        ELSE IF found = <<>> THEN R(r2.w, TRUE, NoId)
        ELSE R(r2.w, FALSE, found[1])

HasTag(w, instance, key) ==
    LET r == ListTagsForResource(w, instance)
    IN  IF r.err THEN R(r.w, TRUE, FALSE)
        ELSE R(r.w, FALSE, \E tag \in r.val : tag.Key = key /\ tag.Value = "true")

HasAutoscalerTag(w, instance) == HasTag(w, instance, MetricTagKey)

\* The mutant takes any instance that carries one of the engine's tags.
HasSchedulerTag_AnyOwner(w, instance) ==
    LET r == ListTagsForResource(w, instance)
    IN  IF r.err THEN R(r.w, TRUE, FALSE)
        ELSE R(r.w, FALSE, \E tag \in r.val : tag.Value = "true")

\* The mutant also takes an instance that carries no tag at all.
HasSchedulerTag_CountsUntagged(w, instance) ==
    LET r == ListTagsForResource(w, instance)
    IN  IF r.err THEN R(r.w, TRUE, FALSE)
        ELSE R(r.w, FALSE, r.val = {} \/ \E tag \in r.val :
                                tag.Key = SchedulerTagKey /\ tag.Value = "true")

HasSchedulerTag(w, instance) == HasTag(w, instance, SchedulerTagKey)

----------------------------------------------------------------------------
(* Instance provisioner.                                                   *)

\* The body of the creation loop of AddReplicas and AddScheduledReplicas,
\* for the k replicas still to add.
RECURSIVE AddLoop(_, _, _)
\* The mutant returns the error of a failed tag write.
AddLoop_TagFailureFails(w, k, key) ==
    IF k <= 0 THEN R(w, FALSE, NoId)
    ELSE IF w.d.DryRun THEN AddLoop(w, k - 1, key)
    ELSE LET c == CreateDBInstance(w)
             arnNil == Fails(c.w, "CreateDBInstanceArn")
             c1 == Count(c.w, "CreateDBInstanceArn")
             t == AddTagsToResource(c1, c.val, key)
         IN  IF c.err THEN R(c.w, TRUE, NoId)
             ELSE IF arnNil THEN R(c1, TRUE, NoId)
             ELSE IF t.err THEN R(t.w, TRUE, NoId)
             ELSE AddLoop(t.w, k - 1, key)

AddLoop(w, k, key) ==
    IF k <= 0 THEN R(w, FALSE, NoId)
    ELSE IF w.d.DryRun THEN AddLoop(w, k - 1, key)
    ELSE LET c == CreateDBInstance(w)
             arnNil == Fails(c.w, "CreateDBInstanceArn")
             c1 == Count(c.w, "CreateDBInstanceArn")
             t == AddTagsToResource(c1, c.val, key)
         IN  IF c.err THEN R(c.w, TRUE, NoId)
             ELSE IF arnNil THEN R(c1, TRUE, NoId)
             ELSE AddLoop(t.w, k - 1, key)

AddReplicas(w, replicasToAdd) ==
    LET r == GetWriterInstance(w)
    IN  IF r.err THEN R(r.w, TRUE, NoId)
        ELSE AddLoop(r.w, replicasToAdd, MetricTagKey)

\* The mutant writes the metric tag on the replicas it adds.
AddScheduledReplicas_MetricTag(w, replicasToAdd) ==
    IF w.d.InstanceType # ""
    THEN AddLoop(w, replicasToAdd, MetricTagKey)
    ELSE LET r == GetWriterInstance(w)
         IN  IF r.err THEN R(r.w, TRUE, NoId)
             ELSE AddLoop(r.w, replicasToAdd, MetricTagKey)

AddScheduledReplicas(w, replicasToAdd) ==
    IF w.d.InstanceType # ""
    THEN AddLoop(w, replicasToAdd, SchedulerTagKey)
    ELSE LET r == GetWriterInstance(w)
         IN  IF r.err THEN R(r.w, TRUE, NoId)
             ELSE AddLoop(r.w, replicasToAdd, SchedulerTagKey)

NoInstance == [id |-> NoId]

\* The scan of RemoveReplica: the first instance of the listing that is not
\* the writer, whose tags could be read, that is available and tagged.
RECURSIVE RemoveScan(_, _, _)
\* The mutant selects the last instance that can be removed, not the first.
RemoveScan_LastMatch(w, dbInstances, writerInstanceIdentifier) ==
    IF dbInstances = <<>> THEN R(w, FALSE, NoInstance)
    ELSE LET instance == Head(dbInstances)
             t == HasAutoscalerTag(w, instance)
             rest == RemoveScan(t.w, Tail(dbInstances), writerInstanceIdentifier)
         IN  IF instance.id = writerInstanceIdentifier
             THEN RemoveScan(w, Tail(dbInstances), writerInstanceIdentifier)
             ELSE IF t.err \/ instance.status # "available" \/ ~t.val
             THEN rest
             ELSE IF rest.val # NoInstance THEN rest
             ELSE R(rest.w, FALSE, instance)

RemoveScan(w, dbInstances, writerInstanceIdentifier) ==
    IF dbInstances = <<>> THEN R(w, FALSE, NoInstance)
    ELSE LET instance == Head(dbInstances)
             t == HasAutoscalerTag(w, instance)
         IN  IF instance.id = writerInstanceIdentifier
             THEN RemoveScan(w, Tail(dbInstances), writerInstanceIdentifier)
             ELSE IF t.err
             THEN RemoveScan(t.w, Tail(dbInstances), writerInstanceIdentifier)
             ELSE IF instance.status # "available"
             THEN RemoveScan(t.w, Tail(dbInstances), writerInstanceIdentifier)
             ELSE IF t.val THEN R(t.w, FALSE, instance)
             ELSE RemoveScan(t.w, Tail(dbInstances), writerInstanceIdentifier)

\* The mutant does not skip the writer.
RemoveReplica_NoWriterSkip(w) ==
    LET r1 == DescribeDBInstances(w)
        r2 == GetWriterInstanceIdentifier(r1.w)
        s == RemoveScan(r2.w, r1.val, NoId)
        del == DeleteDBInstance(s.w, s.val.id)
    IN  IF r1.err THEN R(r1.w, TRUE, NoId)
        ELSE IF r2.err THEN R(r2.w, TRUE, NoId)
        ELSE IF s.val = NoInstance THEN R(s.w, FALSE, NoId)
        ELSE IF w.d.DryRun THEN R(s.w, FALSE, NoId)
        ELSE R(del.w, del.err, NoId)

\* The mutant deletes under dry-run as well.
RemoveReplica_IgnoreDryRun(w) ==
    LET r1 == DescribeDBInstances(w)
        r2 == GetWriterInstanceIdentifier(r1.w)
        s == RemoveScan(r2.w, r1.val, r2.val)
        del == DeleteDBInstance(s.w, s.val.id)
    IN  IF r1.err THEN R(r1.w, TRUE, NoId)
        ELSE IF r2.err THEN R(r2.w, TRUE, NoId)
        ELSE IF s.val = NoInstance THEN R(s.w, FALSE, NoId)
        ELSE R(del.w, del.err, NoId)

RemoveReplica(w) ==
    LET r1 == DescribeDBInstances(w)
        r2 == GetWriterInstanceIdentifier(r1.w)
        s == RemoveScan(r2.w, r1.val, r2.val)
        del == DeleteDBInstance(s.w, s.val.id)
    IN  IF r1.err THEN R(r1.w, TRUE, NoId)
        ELSE IF r2.err THEN R(r2.w, TRUE, NoId)
        ELSE IF s.val = NoInstance THEN R(s.w, FALSE, NoId)
        ELSE IF w.d.DryRun THEN R(s.w, FALSE, NoId)
        ELSE R(del.w, del.err, NoId)

\* The mutant stops after the first available instance.
RemoveScheduledReplicas_FirstOnly(w, scheduledInstances) ==
    LET avail == SelectSeq(scheduledInstances, LAMBDA x : x.status = "available")
        del == DeleteDBInstance(w, avail[1].id)
    IN  IF avail = <<>> \/ w.d.DryRun THEN R(w, FALSE, NoId)
        ELSE R(del.w, del.err, NoId)

RECURSIVE RemoveScheduledReplicas(_, _)
\* The mutant deletes the scheduler-owned readers of any status.
RemoveScheduledReplicas_AnyStatus(w, scheduledInstances) ==
    IF scheduledInstances = <<>> THEN R(w, FALSE, NoId)
    ELSE LET instance == Head(scheduledInstances)
             del == DeleteDBInstance(w, instance.id)
         IN  IF w.d.DryRun
             THEN RemoveScheduledReplicas(w, Tail(scheduledInstances))
             ELSE IF del.err THEN R(del.w, TRUE, NoId)
             ELSE RemoveScheduledReplicas(del.w, Tail(scheduledInstances))

RemoveScheduledReplicas(w, scheduledInstances) ==
    IF scheduledInstances = <<>> THEN R(w, FALSE, NoId)
    ELSE LET instance == Head(scheduledInstances)
             del == DeleteDBInstance(w, instance.id)
         IN  IF instance.status # "available"
             THEN RemoveScheduledReplicas(w, Tail(scheduledInstances))
             ELSE IF w.d.DryRun
             THEN RemoveScheduledReplicas(w, Tail(scheduledInstances))
             ELSE IF del.err THEN R(del.w, TRUE, NoId)
             ELSE RemoveScheduledReplicas(del.w, Tail(scheduledInstances))

----------------------------------------------------------------------------
(* Metric sampler.  The k-th GetMetricStatistics call of the attempt       *)
(* answers w.in.samples[k] as the Average of its latest datapoint, or no   *)
(* datapoint at all.  The value returned is the rational <<total, len>>.   *)

RECURSIVE SampleLoop(_, _, _)
\* The mutant leaves a reader without datapoints out of the total.
SampleLoop_SkipsEmpty(w, readerInstances, totalMetric) ==
    IF readerInstances = <<>> THEN R(w, FALSE, totalMetric)
    ELSE LET w1 == Count(w, "GetMetricStatistics")
             w2 == Count(w1, "Datapoints")
         IN  IF Fails(w, "GetMetricStatistics") THEN R(w1, TRUE, 0)
             ELSE IF Fails(w1, "Datapoints")
             THEN SampleLoop(w2, Tail(readerInstances), totalMetric)
             ELSE SampleLoop(w2, Tail(readerInstances),
                             totalMetric + w.in.samples[w1.n["GetMetricStatistics"]])

SampleLoop(w, readerInstances, totalMetric) ==
    IF readerInstances = <<>> THEN R(w, FALSE, totalMetric)
    ELSE LET w1 == Count(w, "GetMetricStatistics")
             w2 == Count(w1, "Datapoints")
         IN  IF Fails(w, "GetMetricStatistics") THEN R(w1, TRUE, 0)
             ELSE IF Fails(w1, "Datapoints") THEN R(w2, TRUE, 0)
             ELSE SampleLoop(w2, Tail(readerInstances),
                             totalMetric + w.in.samples[w1.n["GetMetricStatistics"]])

GetCurrentMetricValue(w) ==
    LET r == GetReaderInstances(w)
        s == SampleLoop(r.w, r.val, 0)
    IN  IF r.err THEN R(r.w, TRUE, <<0, 1>>)
        ELSE IF Len(r.val) = 0 THEN R(r.w, TRUE, <<0, 1>>)
        ELSE IF s.err THEN R(s.w, TRUE, <<0, 1>>)
        ELSE R(s.w, FALSE, <<s.val, Len(r.val)>>)

----------------------------------------------------------------------------
(* Reconciler.                                                             *)

\* The tag scan of ExecuteScheduledScalingAction: the readers that carry the
\* scheduler tag, or the first tag read that failed.
RECURSIVE ScheduledScan(_, _, _)
ScheduledScan(w, readerInstances, scheduledInstances) ==
    IF readerInstances = <<>> THEN R(w, FALSE, scheduledInstances)
    ELSE LET instance == Head(readerInstances)
             t == HasSchedulerTag(w, instance)
         IN  IF t.err THEN R(t.w, TRUE, <<>>)
             ELSE ScheduledScan(t.w, Tail(readerInstances),
                                IF t.val THEN Append(scheduledInstances, instance)
                                ELSE scheduledInstances)

Decide(w, branch, current, desired, replicas) ==
    [w EXCEPT !.branch = branch, !.current = current, !.desired = desired,
              !.replicas = replicas]

\* ExecuteScheduledScalingAction, the scale-in branch: the scheduler-owned
\* readers are removed and one scale-in notification is sent (a failed
\* notification is logged).
ScheduledScaleIn_CountOne(w, scheduledInstances) ==
    LET rem == RemoveScheduledReplicas(w, scheduledInstances)
    IN  IF rem.err THEN R(rem.w, TRUE, NoId)
        ELSE R(SendScaleInNotification(rem.w, 1).w, FALSE, NoId)

\* ExecuteScheduledScalingAction, the end of the scale-in branch.
ScheduledScaleIn(w, scheduledInstances) ==
    LET rem == RemoveScheduledReplicas(w, scheduledInstances)
    IN  IF rem.err THEN R(rem.w, TRUE, NoId)
        ELSE R(SendScaleInNotification(rem.w, Len(scheduledInstances)).w, FALSE, NoId)

\* The mutant sends no notification after a scale-out.
ScheduledScaleOut_NoNotification(w, replicasToAdd) ==
    LET add == AddScheduledReplicas(w, replicasToAdd)
    IN  IF add.err THEN R(add.w, TRUE, NoId)
        ELSE R(add.w, FALSE, NoId)

\* ExecuteScheduledScalingAction, the end of the scale-out branch.
ScheduledScaleOut(w, replicasToAdd) ==
    LET add == AddScheduledReplicas(w, replicasToAdd)
    IN  IF add.err THEN R(add.w, TRUE, NoId)
        ELSE R(SendScaleOutNotification(add.w, replicasToAdd).w, FALSE, NoId)

\* The mutants decide without the upper limit, and without the lower one.
ScheduledDecision_NoMaxClamp(w, readerInstances, scheduledInstances) ==
    LET currentScheduledReplicas == Len(scheduledInstances)
        desiredCapacity == Len(readerInstances) + w.d.ScheduleNumberReplicas
        adjusted == w.d.ScheduleNumberReplicas
        \* Enforce MIN_CAPACITY
        replicasToAdd == IF desiredCapacity < w.d.MinCapacity
                         THEN w.d.MinCapacity - Len(readerInstances)
                         ELSE adjusted
    IN  IF currentScheduledReplicas > 0
        THEN ScheduledScaleIn(
                 [Decide(w, "in", Len(readerInstances), desiredCapacity,
                         currentScheduledReplicas)
                     EXCEPT !.scheduled = [i \in 1..Len(scheduledInstances) |->
                                              scheduledInstances[i].id]],
                 scheduledInstances)
        ELSE IF FALSE
        THEN R(Decide(w, "noop", Len(readerInstances), desiredCapacity, 0), FALSE, NoId)
        ELSE ScheduledScaleOut(
                 Decide(w, "out", Len(readerInstances), desiredCapacity, replicasToAdd),
                 replicasToAdd)

ScheduledDecision_NoMinClamp(w, readerInstances, scheduledInstances) ==
    LET currentScheduledReplicas == Len(scheduledInstances)
        desiredCapacity == Len(readerInstances) + w.d.ScheduleNumberReplicas
        \* Enforce MAX_CAPACITY
        adjusted == IF desiredCapacity > w.d.MaxCapacity
                    THEN w.d.MaxCapacity - Len(readerInstances)
                    ELSE w.d.ScheduleNumberReplicas
        replicasToAdd == adjusted
    IN  IF currentScheduledReplicas > 0
        THEN ScheduledScaleIn(
                 [Decide(w, "in", Len(readerInstances), desiredCapacity,
                         currentScheduledReplicas)
                     EXCEPT !.scheduled = [i \in 1..Len(scheduledInstances) |->
                                              scheduledInstances[i].id]],
                 scheduledInstances)
        ELSE IF desiredCapacity > w.d.MaxCapacity /\ adjusted <= 0
        THEN R(Decide(w, "noop", Len(readerInstances), desiredCapacity, 0), FALSE, NoId)
        ELSE ScheduledScaleOut(
                 Decide(w, "out", Len(readerInstances), desiredCapacity, replicasToAdd),
                 replicasToAdd)

\* ExecuteScheduledScalingAction, once the readers are listed and the
\* scheduler-owned ones among them are known.
ScheduledDecision(w, readerInstances, scheduledInstances) ==
    LET currentScheduledReplicas == Len(scheduledInstances)
        desiredCapacity == Len(readerInstances) + w.d.ScheduleNumberReplicas
        \* Enforce MAX_CAPACITY
        adjusted == IF desiredCapacity > w.d.MaxCapacity
                    THEN w.d.MaxCapacity - Len(readerInstances)
                    ELSE w.d.ScheduleNumberReplicas
        \* Enforce MIN_CAPACITY
        replicasToAdd == IF desiredCapacity < w.d.MinCapacity
                         THEN w.d.MinCapacity - Len(readerInstances)
                         ELSE adjusted
    IN  IF currentScheduledReplicas > 0
        THEN ScheduledScaleIn(
                 [Decide(w, "in", Len(readerInstances), desiredCapacity,
                         currentScheduledReplicas)
                     EXCEPT !.scheduled = [i \in 1..Len(scheduledInstances) |->
                                              scheduledInstances[i].id]],
                 scheduledInstances)
        ELSE IF desiredCapacity > w.d.MaxCapacity /\ adjusted <= 0
        THEN R(Decide(w, "noop", Len(readerInstances), desiredCapacity, 0), FALSE, NoId)
        ELSE ScheduledScaleOut(
                 Decide(w, "out", Len(readerInstances), desiredCapacity, replicasToAdd),
                 replicasToAdd)

\* ExecuteScheduledScalingAction, the tag scan of the readers listed.
ScheduledTagScan(w, readerInstances) ==
    LET sc == ScheduledScan(w, readerInstances, <<>>)
    IN  IF sc.err THEN R(sc.w, TRUE, NoId)
        ELSE ScheduledDecision(sc.w, readerInstances, sc.val)

ExecuteScheduledScalingAction(w) ==
    LET r == GetReaderInstances(w)
    IN  IF r.err THEN R(r.w, TRUE, NoId)
        ELSE ScheduledTagScan(r.w, r.val)

\* The mutant returns the error of the notification.
MetricScaleOut_NotificationEscalates(w, replicasToAdd) ==
    LET add == AddReplicas(w, replicasToAdd)
        note == SendScaleOutNotification(add.w, replicasToAdd)
    IN  IF add.err THEN R(add.w, TRUE, NoId)
        ELSE R(note.w, note.err, NoId)

\* ExecuteMetricBasedScalingAction, the scale-out branch.
MetricScaleOut(w, replicasToAdd) ==
    LET add == AddReplicas(w, replicasToAdd)
    IN  IF add.err THEN R(add.w, TRUE, NoId)
        ELSE R(SendScaleOutNotification(add.w, replicasToAdd).w, FALSE, NoId)

\* The mutant sends no scale-in notification under dry-run.
MetricScaleIn_SilentDryRun(w) ==
    LET rem == RemoveReplica(w)
    IN  IF rem.err THEN R(rem.w, TRUE, NoId)
        ELSE IF w.d.DryRun THEN R(rem.w, FALSE, NoId)
        ELSE R(SendScaleInNotification(rem.w, 1).w, FALSE, NoId)

\* The mutant removes two replicas in one reconciliation.
MetricScaleIn_Twice(w) ==
    LET rem1 == RemoveReplica(w)
        rem2 == RemoveReplica(rem1.w)
    IN  IF rem1.err THEN R(rem1.w, TRUE, NoId)
        ELSE IF rem2.err THEN R(rem2.w, TRUE, NoId)
        ELSE R(SendScaleInNotification(rem2.w, 2).w, FALSE, NoId)

\* ExecuteMetricBasedScalingAction, the scale-in branch.
MetricScaleIn(w) ==
    LET rem == RemoveReplica(w)
    IN  IF rem.err THEN R(rem.w, TRUE, NoId)
        ELSE R(SendScaleInNotification(rem.w, 1).w, FALSE, NoId)

\* The mutant takes the scale-out branch when the capacities are equal.
MetricDecision_OutOnEqual(w, currentCapacity, desiredCapacity) ==
    IF desiredCapacity >= currentCapacity
    THEN MetricScaleOut(Decide(w, "out", currentCapacity, desiredCapacity,
                               desiredCapacity - currentCapacity),
                        desiredCapacity - currentCapacity)
    ELSE MetricScaleIn(Decide(w, "in", currentCapacity, desiredCapacity, 1))

\* ExecuteMetricBasedScalingAction, the comparison of the two capacities.
MetricDecision(w, currentCapacity, desiredCapacity) ==
    IF desiredCapacity > currentCapacity
    THEN MetricScaleOut(Decide(w, "out", currentCapacity, desiredCapacity,
                               desiredCapacity - currentCapacity),
                        desiredCapacity - currentCapacity)
    ELSE IF desiredCapacity < currentCapacity
    THEN MetricScaleIn(Decide(w, "in", currentCapacity, desiredCapacity, 1))
    ELSE R(Decide(w, "noop", currentCapacity, desiredCapacity, 0), FALSE, NoId)

\* ExecuteMetricBasedScalingAction, once the metric is read.
MetricCapacity(w, currentMetricValue) ==
    LET c == GetCurrentCapacity(w)
    IN  IF c.err THEN R(c.w, TRUE, NoId)
        ELSE MetricDecision(c.w, c.val,
                 CalculateDesiredCapacity(w.d, currentMetricValue, c.val, w.in.nanInt))

ExecuteMetricBasedScalingAction(w) ==
    LET m == GetCurrentMetricValue(w)
    IN  IF m.err THEN R(m.w, TRUE, NoId)
        ELSE MetricCapacity(m.w, m.val)

ExecuteScalingAction(w) ==
    IF w.d.ScheduledScaling
    THEN ExecuteScheduledScalingAction(w)
    ELSE ExecuteMetricBasedScalingAction(w)

----------------------------------------------------------------------------
(* The invocation: handler, processScaling and executeWithRetry.           *)

\* What int(NaN) gives: math.MinInt64 on amd64 (a stand-in of 32 bits), 0 on arm64.
MinInt == -2147483647

NaNInts == {0, MinInt}

InitialBackoff == 1

BackoffCap == 32

\* The environment variables the handler has read, as NewDocumentDB gets them:
\* a scheduled configuration leaves TargetValue at its zero value, a metric
\* configuration leaves ScheduleNumberReplicas at 0.  MinCapacity <=
\* MaxCapacity, and INSTANCE_TYPE is not set.
Capacities == {<<1, MaxCap>>}

ScheduledEnvironments ==
    {[ScheduledScaling |-> TRUE, DryRun |-> dry, MinCapacity |-> c[1],
      MaxCapacity |-> c[2], TargetValue |-> 0, ScheduleNumberReplicas |-> n,
      InstanceType |-> ""] :
        dry \in BOOLEAN, c \in Capacities, n \in (-1)..MaxDelta}

Environments ==
    ScheduledEnvironments
    \cup
    {[ScheduledScaling |-> FALSE, DryRun |-> dry, MinCapacity |-> c[1],
      MaxCapacity |-> c[2], TargetValue |-> t, ScheduleNumberReplicas |-> 0,
      InstanceType |-> ""] :
        dry \in BOOLEAN, c \in Capacities, t \in {0, 50}}

NoMessage == [NumberReplicas |-> 0, empty |-> TRUE]

\* The SNS message of the record that is processed: none (a timer), or a
\* ScalingMessage.  Its NumberReplicas is MaxDelta where the environment is a
\* scheduled one; a metric configuration never reads ScheduleNumberReplicas,
\* and the message leaves it at 0 there.
Messages(env) ==
    {NoMessage, [NumberReplicas |-> IF env.ScheduledScaling THEN MaxDelta ELSE 0,
                 empty |-> FALSE]}

NewDocumentDB(env) == env

\* processScaling, up to the call of executeWithRetry.
processScaling(dd, snsMessage) ==
    IF ~snsMessage.empty
    THEN [dd EXCEPT !.ScheduledScaling = FALSE,
                    !.ScheduleNumberReplicas = snsMessage.NumberReplicas]
    ELSE dd

NoD == [ScheduledScaling |-> FALSE, DryRun |-> FALSE, MinCapacity |-> 0,
        MaxCapacity |-> 0, TargetValue |-> 0, ScheduleNumberReplicas |-> 0,
        InstanceType |-> ""]

NewAttempt(inst, dd, in) ==
    [inst |-> inst, d |-> dd, in |-> in, n |-> [a \in APIs |-> 0],
     createdIds |-> <<>>, tagCalls |-> <<>>, deleteCalls |-> <<>>, notes |-> <<>>,
     scheduled |-> <<>>, branch |-> "none", current |-> 0, desired |-> 0,
     replicas |-> 0]

\* The APIs of which a call of the attempt returned an error.
FailedCalls(w) ==
    {api \in APIs :
        \/ <<api, 0>> \in w.in.faults /\ w.n[api] >= 1
        \/ \E k \in 1..w.n[api] : <<api, k>> \in w.in.faults}

\* What is kept of an attempt: all but the answers of the services.
Record(pre, r, invCreated, invNotes) ==
    [ran |-> TRUE, pre |-> pre, err |-> r.err, n |-> r.w.n, failed |-> FailedCalls(r.w),
     createdIds |-> r.w.createdIds, tagCalls |-> r.w.tagCalls,
     deleteCalls |-> r.w.deleteCalls, notes |-> r.w.notes,
     scheduled |-> r.w.scheduled, branch |-> r.w.branch,
     current |-> r.w.current, desired |-> r.w.desired, replicas |-> r.w.replicas,
     invCreated |-> invCreated \cup {r.w.createdIds[i] : i \in 1..Len(r.w.createdIds)},
     invNotes |-> invNotes \o r.w.notes]

NoAttempt ==
    [ran |-> FALSE, pre |-> <<>>, err |-> FALSE, n |-> [a \in APIs |-> 0], failed |-> {},
     createdIds |-> <<>>, tagCalls |-> <<>>, deleteCalls |-> <<>>, notes |-> <<>>,
     scheduled |-> <<>>, branch |-> "none", current |-> 0, desired |-> 0,
     replicas |-> 0, invCreated |-> {}, invNotes |-> <<>>]

NoPrev == [ran |-> FALSE, d |-> NoD, pre |-> <<>>, branch |-> "none",
           createdIds |-> <<>>, tagCalls |-> <<>>]

\* The invocations that may run at the same time.
Procs == {1, 2}

\* An invocation that is not running.
NoProc == [pc |-> "idle", ops |-> <<>>, created |-> NoId]

NoProcs == [p \in Procs |-> NoProc]

NoCalc == [done |-> FALSE, d |-> NoD, metric |-> <<0, 1>>, current |-> 0, nanInt |-> 0, out |-> 0]

----------------------------------------------------------------------------
(* The environment variables and their parsing by the handler.  The value  *)
(* of a variable is a string, "" when the variable is not set.             *)

EnvNames ==
    {"SNS_TOPIC_ARN", "CLUSTER_IDENTIFIER", "MIN_CAPACITY", "MAX_CAPACITY",
     "SCHEDULED_SCALING", "SCHEDULE_NUMBER_REPLICAS", "METRIC_NAME", "TARGET_VALUE",
     "SCALE_IN_COOLDOWN", "SCALE_OUT_COOLDOWN", "MAX_RETRIES", "INITIAL_BACKOFF",
     "DRYRUN", "INSTANCE_TYPE"}

NoEnv == [k \in EnvNames |-> ""]

\* The decimal strings of the model and the integers they denote.
IntOf ==
    ("-1" :> -1) @@ ("0" :> 0) @@ ("1" :> 1) @@ ("2" :> 2) @@ ("3" :> 3) @@ ("5" :> 5)
        @@ ("50" :> 50) @@ ("300" :> 300)

\* strconv.Atoi: the integer a decimal string denotes, an error for any
\* other string.
Atoi(str) ==
    IF str \in DOMAIN IntOf
    THEN [err |-> FALSE, val |-> IntOf[str]]
    ELSE [err |-> TRUE, val |-> 0]

\* strconv.ParseFloat, on the decimal strings of the model.
ParseFloat(str) ==
    IF str \in DOMAIN IntOf
    THEN [err |-> FALSE, val |-> IntOf[str]]
    ELSE [err |-> TRUE, val |-> 0]

\* strconv.ParseBool.
ParseBool(str) ==
    IF str \in {"1", "t", "T", "TRUE", "true", "True"}
    THEN [err |-> FALSE, val |-> TRUE]
    ELSE IF str \in {"0", "f", "F", "FALSE", "false", "False"}
    THEN [err |-> FALSE, val |-> FALSE]
    ELSE [err |-> TRUE, val |-> FALSE]

DefaultMaxRetries == 5

\* The handler returns an error before NewDocumentDB.
ConfigError == [err |-> TRUE, d |-> NoD, maxRetries |-> 0, initialBackoff |-> 0]

\* A variable that may be left unset: its default, or the parsed value.
Optional(str, default, parsed) ==
    IF str = "" THEN [err |-> FALSE, val |-> default] ELSE parsed

\* The mutant takes 1 for a MIN_CAPACITY that is not set.
handleCloudWatchEvent_DefaultMinCapacity(env) ==
    LET minCapacity == Optional(env.MIN_CAPACITY, 1, Atoi(env.MIN_CAPACITY))
        maxCapacity == Atoi(env.MAX_CAPACITY)
        scheduledScaling ==
            Optional(env.SCHEDULED_SCALING, FALSE, ParseBool(env.SCHEDULED_SCALING))
        scheduleNumberReplicas == Atoi(env.SCHEDULE_NUMBER_REPLICAS)
        targetValue == ParseFloat(env.TARGET_VALUE)
        scaleInCooldown == Atoi(env.SCALE_IN_COOLDOWN)
        scaleOutCooldown == Atoi(env.SCALE_OUT_COOLDOWN)
        maxRetriesVal == Optional(env.MAX_RETRIES, DefaultMaxRetries, Atoi(env.MAX_RETRIES))
        initialBackoffVal ==
            Optional(env.INITIAL_BACKOFF, InitialBackoff, Atoi(env.INITIAL_BACKOFF))
        dryRun == Optional(env.DRYRUN, FALSE, ParseBool(env.DRYRUN))
    IN  IF env.SNS_TOPIC_ARN = "" THEN ConfigError
        ELSE IF env.CLUSTER_IDENTIFIER = "" THEN ConfigError
        ELSE IF minCapacity.err THEN ConfigError
        ELSE IF env.MAX_CAPACITY = "" \/ maxCapacity.err THEN ConfigError
        ELSE IF scheduledScaling.err THEN ConfigError
        ELSE IF scheduledScaling.val
                /\ (env.SCHEDULE_NUMBER_REPLICAS = "" \/ scheduleNumberReplicas.err)
        THEN ConfigError
        ELSE IF ~scheduledScaling.val
                /\ (\/ env.METRIC_NAME = ""
                    \/ env.TARGET_VALUE = "" \/ targetValue.err
                    \/ env.SCALE_IN_COOLDOWN = "" \/ scaleInCooldown.err
                    \/ env.SCALE_OUT_COOLDOWN = "" \/ scaleOutCooldown.err)
        THEN ConfigError
        ELSE IF maxRetriesVal.err THEN ConfigError
        ELSE IF initialBackoffVal.err THEN ConfigError
        ELSE IF dryRun.err THEN ConfigError
        ELSE [err |-> FALSE,
              d |-> NewDocumentDB(
                        [ScheduledScaling |-> scheduledScaling.val,
                         DryRun |-> dryRun.val,
                         MinCapacity |-> minCapacity.val,
                         MaxCapacity |-> maxCapacity.val,
                         TargetValue |-> IF scheduledScaling.val THEN 0 ELSE targetValue.val,
                         ScheduleNumberReplicas |->
                             IF scheduledScaling.val THEN scheduleNumberReplicas.val ELSE 0,
                         InstanceType |-> env.INSTANCE_TYPE]),
              maxRetries |-> maxRetriesVal.val,
              initialBackoff |-> initialBackoffVal.val]

\* handleCloudWatchEvent, from the first os.Getenv to NewDocumentDB
\* (handleSNSEvent reads the environment with the same statements): the
\* first variable that is missing where it must be set, or that does not
\* parse, makes the handler return an error.
handleCloudWatchEvent(env) ==
    LET minCapacity == Atoi(env.MIN_CAPACITY)
        maxCapacity == Atoi(env.MAX_CAPACITY)
        scheduledScaling ==
            Optional(env.SCHEDULED_SCALING, FALSE, ParseBool(env.SCHEDULED_SCALING))
        scheduleNumberReplicas == Atoi(env.SCHEDULE_NUMBER_REPLICAS)
        targetValue == ParseFloat(env.TARGET_VALUE)
        scaleInCooldown == Atoi(env.SCALE_IN_COOLDOWN)
        scaleOutCooldown == Atoi(env.SCALE_OUT_COOLDOWN)
        maxRetriesVal == Optional(env.MAX_RETRIES, DefaultMaxRetries, Atoi(env.MAX_RETRIES))
        initialBackoffVal ==
            Optional(env.INITIAL_BACKOFF, InitialBackoff, Atoi(env.INITIAL_BACKOFF))
        dryRun == Optional(env.DRYRUN, FALSE, ParseBool(env.DRYRUN))
    IN  IF env.SNS_TOPIC_ARN = "" THEN ConfigError
        ELSE IF env.CLUSTER_IDENTIFIER = "" THEN ConfigError
        ELSE IF env.MIN_CAPACITY = "" \/ minCapacity.err THEN ConfigError
        ELSE IF env.MAX_CAPACITY = "" \/ maxCapacity.err THEN ConfigError
        ELSE IF scheduledScaling.err THEN ConfigError
        ELSE IF scheduledScaling.val
                /\ (env.SCHEDULE_NUMBER_REPLICAS = "" \/ scheduleNumberReplicas.err)
        THEN ConfigError
        ELSE IF ~scheduledScaling.val
                /\ (\/ env.METRIC_NAME = ""
                    \/ env.TARGET_VALUE = "" \/ targetValue.err
                    \/ env.SCALE_IN_COOLDOWN = "" \/ scaleInCooldown.err
                    \/ env.SCALE_OUT_COOLDOWN = "" \/ scaleOutCooldown.err)
        THEN ConfigError
        ELSE IF maxRetriesVal.err THEN ConfigError
        ELSE IF initialBackoffVal.err THEN ConfigError
        ELSE IF dryRun.err THEN ConfigError
        ELSE [err |-> FALSE,
              d |-> NewDocumentDB(
                        [ScheduledScaling |-> scheduledScaling.val,
                         DryRun |-> dryRun.val,
                         MinCapacity |-> minCapacity.val,
                         MaxCapacity |-> maxCapacity.val,
                         TargetValue |-> IF scheduledScaling.val THEN 0 ELSE targetValue.val,
                         ScheduleNumberReplicas |->
                             IF scheduledScaling.val THEN scheduleNumberReplicas.val ELSE 0,
                         InstanceType |-> env.INSTANCE_TYPE]),
              maxRetries |-> maxRetriesVal.val,
              initialBackoff |-> initialBackoffVal.val]

\* A deployment with every variable set but INSTANCE_TYPE, in schedule mode
\* or in metric mode.
BaseEnvironments ==
    {[SNS_TOPIC_ARN |-> "arn:aws:sns:us-east-1:1:docdb", CLUSTER_IDENTIFIER |-> "docdb",
      MIN_CAPACITY |-> "1", MAX_CAPACITY |-> "3", SCHEDULED_SCALING |-> mode,
      SCHEDULE_NUMBER_REPLICAS |-> "2", METRIC_NAME |-> "CPUUtilization",
      TARGET_VALUE |-> "50", SCALE_IN_COOLDOWN |-> "300", SCALE_OUT_COOLDOWN |-> "300",
      MAX_RETRIES |-> "2", INITIAL_BACKOFF |-> "1", DRYRUN |-> "false",
      INSTANCE_TYPE |-> ""] : mode \in {"true", "false"}}

\* A deployment, or one with a variable not set, or set to a string that is
\* neither a number nor a boolean, or one whose TARGET_VALUE is a number
\* that is not positive.
OsEnvironments ==
    UNION {{base} \cup {[base EXCEPT ![k] = str] : k \in EnvNames, str \in {"", "abc"}}
                  \cup {[base EXCEPT !.TARGET_VALUE = str] : str \in {"0", "-1"}} :
              base \in BaseEnvironments}

----------------------------------------------------------------------------
(* The identifier of a new instance.  A string is the sequence of its      *)
(* characters, each a one-character string; the characters are bytes.      *)

Letters == {"a", "c", "d", "e", "h", "l", "r", "s", "u", "Z"}

Digits == {"0", "1", "2", "3", "4", "5", "6", "7", "8", "9"}

isLetter(ch) == ch \in Letters

isValidDBInstanceIdentifierChar(ch) == ch \in Letters \/ ch \in Digits \/ ch = "-"

\* strings.TrimRight(str, cutset), cutset a single character.
RECURSIVE TrimRight(_, _)
TrimRight(str, cutset) ==
    IF str # <<>> /\ str[Len(str)] = cutset
    THEN TrimRight(SubSeq(str, 1, Len(str) - 1), cutset)
    ELSE str

RECURSIVE TrimLeft(_, _)
TrimLeft(str, cutset) ==
    IF str # <<>> /\ Head(str) = cutset THEN TrimLeft(Tail(str), cutset) ELSE str

\* strings.Trim(str, cutset).
Trim(str, cutset) == TrimLeft(TrimRight(str, cutset), cutset)

\* strings.ReplaceAll(str, old, new): one pass from the left over the
\* occurrences of old that do not overlap.
RECURSIVE ReplaceAll(_, _, _)
ReplaceAll(str, old, new) ==
    IF Len(str) < Len(old) THEN str
    ELSE IF SubSeq(str, 1, Len(old)) = old
    THEN new \o ReplaceAll(SubSeq(str, Len(old) + 1, Len(str)), old, new)
    ELSE <<Head(str)>> \o ReplaceAll(Tail(str), old, new)

\* identifier[0] of an empty string is a run-time panic.
sanitizeDBInstanceIdentifier(identifier) ==
    IF identifier = <<>> THEN [panic |-> TRUE, val |-> <<>>]
    ELSE LET prefixed == IF ~isLetter(identifier[1])
                         THEN <<"a">> \o identifier
                         ELSE identifier
             validIdentifier ==
                 [i \in 1..Len(prefixed) |->
                     IF isValidDBInstanceIdentifierChar(prefixed[i])
                     THEN prefixed[i]
                     ELSE "-"]
         IN  [panic |-> FALSE,
              val |-> Trim(ReplaceAll(validIdentifier, <<"-", "-">>, <<"-">>), "-")]

MaxIdentifierLength == 63

ReaderInfix == <<"-", "r", "e", "a", "d", "e", "r", "-">>

SchedulerInfix == <<"-", "s", "c", "h", "e", "d", "u", "l", "e", "r", "-">>

\* AddReplicas and AddScheduledReplicas, from fmt.Sprintf to the sanitizer:
\* the identifier handed to CreateDBInstance.
baseIdentifier(clusterID, infix, uniqueID) ==
    LET joined == clusterID \o infix \o uniqueID
    IN  sanitizeDBInstanceIdentifier(
            IF Len(joined) > MaxIdentifierLength
            THEN TrimRight(SubSeq(joined, 1, MaxIdentifierLength), "-")
            ELSE joined)

NoIdent ==
    [done |-> FALSE, clusterID |-> <<>>, infix |-> <<>>, uniqueID |-> <<>>,
     panic |-> FALSE, out |-> <<>>]

----------------------------------------------------------------------------
(* The inputs of one attempt.                                              *)

MetricValues == {0, 150}

\* The Averages the readers report, in non-decreasing order: the mean does
\* not depend on which reader reports which.
SampleSeqs(n) ==
    {sq \in [1..n -> MetricValues] : \A i \in 1..(n - 1) : sq[i] <= sq[i + 1]}

\* No fault, or one API whose first call fails, or (create, tag write,
\* delete, datapoints of a reader) whose second call fails, or (tag read, tag
\* write) whose calls all fail.
FaultPlans ==
    {{}} \cup {{<<a, 1>>} : a \in APIs}
         \cup {{<<a, 2>>} : a \in {"CreateDBInstance", "AddTagsToResource", "DeleteDBInstance",
                                  "Datapoints"}}
         \cup {{<<a, 0>>} : a \in {"ListTagsForResource", "AddTagsToResource"}}

NReaders(inst) == Cardinality({i \in 1..Len(inst) : ~inst[i].isWriter})

\* The number of instances GetReaderInstances returns: all but the first
\* member flagged as writer.
NSampled(inst) ==
    IF \A i \in 1..Len(inst) : ~inst[i].isWriter THEN 0 ELSE Len(inst) - 1

RECURSIVE Sum(_)
Sum(sq) == IF sq = <<>> THEN 0 ELSE Head(sq) + Sum(Tail(sq))

Inputs(inst, dd) ==
    IF dd.ScheduledScaling
    THEN [faults : FaultPlans, samples : {<<>>}, nanInt : {0}]
    ELSE UNION {[faults : FaultPlans, samples : {sq},
                 nanInt : IF dd.TargetValue = 0 /\ Sum(sq) = 0 THEN NaNInts ELSE {0}] :
                    sq \in SampleSeqs(NSampled(inst))}

----------------------------------------------------------------------------
(* The initial listings: up to MaxInitReaders available readers of any     *)
(* ownership, then the writer.  An instance the engine creates is listed   *)
(* after them as "creating" and becomes "available" later.                 *)

InitTagSets == {{}, {Tag(MetricTagKey, "true")}, {Tag(SchedulerTagKey, "true")},
                {Tag(MetricTagKey, "false"), Tag(SchedulerTagKey, "yes")}}

\* The engine never reads the writer's tags; the writer carries both.
WriterTagSets == {{Tag(MetricTagKey, "true"), Tag(SchedulerTagKey, "true")}}

ReaderKinds == [status : {"available"}, tags : InitTagSets]

Listing(writerTags, kinds) ==
    LET writer == <<[id |-> Len(kinds) + 1, status |-> "available", tags |-> writerTags,
                     isWriter |-> TRUE]>>
        readers == [i \in 1..Len(kinds) |->
                       [id |-> i, status |-> kinds[i].status,
                        tags |-> kinds[i].tags, isWriter |-> FALSE]]
    IN  readers \o writer

Init ==
    /\ \E n \in 0..MaxInitReaders, writerTags \in WriterTagSets :
         \E kinds \in [1..n -> ReaderKinds] :
            instances = Listing(writerTags, kinds)
    /\ d = NoD
    /\ maxRetries = 0
    /\ pc = "idle"
    /\ attempt = 0
    /\ initialBackoff = 0
    /\ backoff = 0
    /\ calls = <<>>
    /\ sleeps = <<>>
    /\ result = "none"
    /\ last = NoAttempt
    /\ prev = NoPrev
    /\ calc = NoCalc
    /\ environ = NoEnv
    /\ ident = NoIdent
    /\ procs = NoProcs
    /\ overlapped = FALSE
    /\ readers0 = 0

\* handler: the configuration is read, the DocumentDB struct built, and
\* processScaling enters executeWithRetry.
Invoke ==
    /\ pc = "idle"
    /\ \E env \in Environments :
         \E snsMessage \in Messages(env) :
            d' = processScaling(NewDocumentDB(env), snsMessage)
    /\ maxRetries' \in {0, MaxRetries}
    /\ pc' = "retry"
    /\ attempt' = 1
    /\ initialBackoff' = InitialBackoff
    /\ backoff' = initialBackoff'
    /\ calls' = <<>>
    /\ sleeps' = <<>>
    /\ result' = "none"
    /\ last' = NoAttempt
    /\ UNCHANGED <<instances, prev, calc, environ, ident, procs, overlapped, readers0>>

Min(a, b) == IF a < b THEN a ELSE b

\* The listing, its identifiers renamed to the positions: an identifier only
\* names an instance, and the calls of an attempt name the instances as the
\* attempt found them.
Renumber(inst) == [i \in 1..Len(inst) |-> [inst[i] EXCEPT !.id = i]]

\* executeWithRetry: action(ctx) of one iteration of the loop.
Attempt ==
    /\ pc = "retry"
    /\ attempt <= maxRetries
    /\ \E in \in Inputs(instances, d) :
         \E r \in {ExecuteScalingAction(NewAttempt(instances, d, in))} :
             /\ instances' = Renumber(r.w.inst)
             /\ last' = Record(instances, r, last.invCreated, last.invNotes)
             /\ pc' = IF r.err THEN "sleep" ELSE "done"
             /\ result' = IF r.err THEN result ELSE "ok"
             /\ calls' = Append(calls, r.err)
    /\ UNCHANGED <<d, maxRetries, attempt, initialBackoff, backoff, sleeps, prev, calc, environ, ident, procs, overlapped, readers0>>

\* executeWithRetry: the rest of the iteration after a failure: the sleep,
\* the doubled backoff, attempt++.
Sleep ==
    /\ pc = "sleep"
    /\ sleeps' = Append(sleeps, backoff)
    /\ backoff' = Min(backoff * 2, BackoffCap)
    /\ attempt' = attempt + 1
    /\ pc' = "retry"
    /\ last' = [NoAttempt EXCEPT !.invCreated = last.invCreated,
                                 !.invNotes = last.invNotes]
    /\ UNCHANGED <<instances, d, maxRetries, initialBackoff, calls, result, prev, calc, environ, ident, procs, overlapped, readers0>>

\* The mutant leaves the loop one iteration early.
Exhausted_Early ==
    /\ pc = "retry"
    /\ attempt >= maxRetries
    /\ pc' = "done"
    /\ result' = "failed"
    /\ UNCHANGED <<instances, d, maxRetries, attempt, initialBackoff, backoff, calls, sleeps,
                   last, prev, calc, environ, ident, procs, overlapped, readers0>>

\* executeWithRetry: the loop is left, "scaling action failed after N attempts".
Exhausted ==
    /\ pc = "retry"
    /\ attempt > maxRetries
    /\ pc' = "done"
    /\ result' = "failed"
    /\ UNCHANGED <<instances, d, maxRetries, attempt, initialBackoff, backoff, calls, sleeps,
                   last, prev, calc, environ, ident, procs, overlapped, readers0>>

\* The handler returns; nothing of the invocation is kept but the directory.
Finish ==
    /\ pc = "done"
    /\ pc' = "idle"
    /\ d' = NoD
    /\ maxRetries' = 0
    /\ attempt' = 0
    /\ initialBackoff' = 0
    /\ backoff' = 0
    /\ calls' = <<>>
    /\ sleeps' = <<>>
    /\ result' = "none"
    /\ last' = NoAttempt
    /\ environ' = NoEnv
    /\ UNCHANGED <<instances, prev, calc, ident, procs, overlapped, readers0>>

\* The directory, between two invocations: an instance it was creating
\* becomes available.
DirectoryProgress ==
    /\ pc = "idle"
    /\ \E i \in 1..Len(instances) :
         /\ instances[i].status = "creating"
         /\ instances' = [instances EXCEPT ![i].status = "available"]
    /\ UNCHANGED <<d, maxRetries, pc, attempt, initialBackoff, backoff, calls, sleeps, result,
                   last, prev, calc, environ, ident, procs, overlapped, readers0>>

Next == Invoke \/ Attempt \/ Sleep \/ Exhausted \/ Finish \/ DirectoryProgress

Spec == Init /\ [][Next]_vars

----------------------------------------------------------------------------
(* Timer invocations of a scheduled configuration, one after the other:    *)
(* the attempt an invocation ended with is kept in prev when the handler   *)
(* returns, for properties of two reconciliations in succession.           *)

\* handleCloudWatchEvent of a scheduled configuration: no SNS message.
InvokeTimer ==
    /\ pc = "idle"
    /\ \E env \in ScheduledEnvironments :
         d' = processScaling(NewDocumentDB(env), NoMessage)
    /\ maxRetries' = ToggleRetries
    /\ pc' = "retry"
    /\ attempt' = 1
    /\ initialBackoff' = InitialBackoff
    /\ backoff' = initialBackoff'
    /\ calls' = <<>>
    /\ sleeps' = <<>>
    /\ result' = "none"
    /\ last' = NoAttempt
    /\ UNCHANGED <<instances, prev, calc, environ, ident, procs, overlapped, readers0>>

\* Finish, with the history of the invocation kept when it succeeded.
FinishKeep ==
    /\ pc = "done"
    /\ prev' = IF result = "ok"
               THEN [ran |-> TRUE, d |-> d, pre |-> last.pre, branch |-> last.branch,
                     createdIds |-> last.createdIds, tagCalls |-> last.tagCalls]
               ELSE NoPrev
    /\ pc' = "idle"
    /\ d' = NoD
    /\ maxRetries' = 0
    /\ attempt' = 0
    /\ initialBackoff' = 0
    /\ backoff' = 0
    /\ calls' = <<>>
    /\ sleeps' = <<>>
    /\ result' = "none"
    /\ last' = NoAttempt
    /\ environ' = NoEnv
    /\ UNCHANGED <<instances, calc, ident, procs, overlapped, readers0>>

NextToggle == InvokeTimer \/ Attempt \/ Sleep \/ Exhausted \/ FinishKeep
                  \/ DirectoryProgress

SpecToggle == Init /\ [][NextToggle]_vars

----------------------------------------------------------------------------
(* Timer invocations whose environment is drawn: the handler reads it and  *)
(* returns an error, or goes on to processScaling.                         *)

\* handleCloudWatchEvent: the environment is read; on an error the handler
\* returns, else the DocumentDB struct is built and processScaling enters
\* executeWithRetry.
InvokeEnv ==
    /\ pc = "idle"
    /\ \E env \in OsEnvironments :
         \E h \in {handleCloudWatchEvent(env)} :
             /\ environ' = env
             /\ d' = IF h.err THEN NoD ELSE processScaling(h.d, NoMessage)
             /\ maxRetries' = h.maxRetries
             /\ initialBackoff' = h.initialBackoff
             /\ backoff' = h.initialBackoff
             /\ pc' = IF h.err THEN "done" ELSE "retry"
             /\ attempt' = IF h.err THEN 0 ELSE 1
             /\ result' = IF h.err THEN "config" ELSE "none"
    /\ calls' = <<>>
    /\ sleeps' = <<>>
    /\ last' = NoAttempt
    /\ UNCHANGED <<instances, prev, calc, ident, procs, overlapped, readers0>>

NextConfig == InvokeEnv \/ Attempt \/ Sleep \/ Exhausted \/ Finish \/ DirectoryProgress

SpecConfig == Init /\ [][NextConfig]_vars

----------------------------------------------------------------------------
(* The identifier builder alone.  CLUSTER_IDENTIFIER is any non-empty      *)
(* string: a beginning and an end of up to MaxAffix characters (a letter,  *)
(* a digit, a hyphen, an underscore) around a run of one character.        *)

MaxAffix == 2

IdChars == {"a", "1", "-", "_"}

Affixes == UNION {[1..n -> IdChars] : n \in 0..MaxAffix}

PadLengths == {0, 43, 46, 59}

Pad(ch, n) == [i \in 1..n |-> ch]

ClusterIDs ==
    {head \o Pad(ch, n) \o tail :
        head \in Affixes, tail \in Affixes, ch \in {"a", "-"}, n \in PadLengths} \ {<<>>}

\* The last nine digits of time.Now().UnixNano().
UniqueIDs == {<<"1", "2", "3", "4", "5", "6", "7", "8", "9">>,
              <<"0", "0", "0", "0", "0", "0", "0", "0", "0">>}

InitIdent ==
    /\ instances = <<>>
    /\ d = NoD
    /\ maxRetries = 0
    /\ pc = "idle"
    /\ attempt = 0
    /\ initialBackoff = 0
    /\ backoff = 0
    /\ calls = <<>>
    /\ sleeps = <<>>
    /\ result = "none"
    /\ last = NoAttempt
    /\ prev = NoPrev
    /\ calc = NoCalc
    /\ environ = NoEnv
    /\ ident \in [done : {FALSE}, clusterID : ClusterIDs,
                  infix : {ReaderInfix, SchedulerInfix}, uniqueID : UniqueIDs,
                  panic : {FALSE}, out : {<<>>}]
    /\ procs = NoProcs
    /\ overlapped = FALSE
    /\ readers0 = 0

BuildIdentifier ==
    /\ ~ident.done
    /\ \E r \in {baseIdentifier(ident.clusterID, ident.infix, ident.uniqueID)} :
         ident' = [ident EXCEPT !.done = TRUE, !.panic = r.panic, !.out = r.val]
    /\ UNCHANGED <<instances, d, maxRetries, pc, attempt, initialBackoff, backoff, calls,
                   sleeps, result, last, prev, calc, environ, procs, overlapped, readers0>>

NextIdent == BuildIdentifier

SpecIdent == InitIdent /\ [][NextIdent]_vars

----------------------------------------------------------------------------
(* Two invocations of one deployment at the same time.  An invocation      *)
(* reads the inventory, the tags and the metric, decides, and then issues  *)
(* its create, tag and delete calls one after the other; nothing is read   *)
(* again between the decision and the calls.                               *)

\* The directory calls of an attempt, in the order it issues them.
Ops(r) ==
    [i \in 1..Len(r.w.deleteCalls) |->
        [op |-> "delete", id |-> r.w.deleteCalls[i].id, key |-> ""]]
    \o
    [i \in 1..(2 * Len(r.w.createdIds)) |->
        IF i % 2 = 1
        THEN [op |-> "create", id |-> NoId, key |-> ""]
        ELSE [op |-> "tag", id |-> NoId, key |-> r.w.tagCalls[i \div 2].key]]

\* The deployments: dry-run off, schedule mode or metric mode.
ConcurrentEnvironments == {env \in Environments : ~env.DryRun}

\* An identifier no instance has and no invocation is about to delete.
FreshId ==
    LET used == IdsOf(instances)
                \cup UNION {{procs[p].ops[i].id : i \in 1..Len(procs[p].ops)} : p \in Procs}
    IN  CHOOSE i \in 1..(Cardinality(used) + 1) : i \notin used

InitConcurrent ==
    /\ \E n \in 0..MaxInitReaders, writerTags \in WriterTagSets :
         \E kinds \in [1..n -> ReaderKinds] :
            instances = Listing(writerTags, kinds)
    /\ d \in ConcurrentEnvironments
    /\ maxRetries = 0
    /\ pc = "idle"
    /\ attempt = 0
    /\ initialBackoff = 0
    /\ backoff = 0
    /\ calls = <<>>
    /\ sleeps = <<>>
    /\ result = "none"
    /\ last = NoAttempt
    /\ prev = NoPrev
    /\ calc = NoCalc
    /\ environ = NoEnv
    /\ ident = NoIdent
    /\ procs = NoProcs
    /\ overlapped = FALSE
    /\ readers0 = 0

\* ExecuteScalingAction of invocation p, up to its decision: the inventory,
\* the tags and the metric are read, and the calls to issue are fixed.
ReadInventory(p) ==
    /\ procs[p].pc = "idle"
    /\ \E in \in {i \in Inputs(instances, d) : i.faults = {}} :
         \E r \in {ExecuteScalingAction(NewAttempt(instances, d, in))} :
             procs' = [procs EXCEPT ![p] = [pc |-> "act", ops |-> Ops(r), created |-> NoId]]
    /\ overlapped' = (overlapped \/ \E q \in Procs \ {p} : procs[q].pc = "act")
    /\ UNCHANGED <<instances, d, maxRetries, pc, attempt, initialBackoff, backoff, calls,
                   sleeps, result, last, prev, calc, environ, ident, readers0>>

\* The next directory call of invocation p takes effect.
DirectoryCall(p) ==
    /\ procs[p].pc = "act"
    /\ procs[p].ops # <<>>
    /\ LET call == Head(procs[p].ops)
           id == FreshId
       IN  /\ instances' =
                 IF call.op = "create"
                 THEN Append(instances, [id |-> id, status |-> "creating",
                                         tags |-> {}, isWriter |-> FALSE])
                 ELSE IF call.op = "tag"
                 THEN [i \in 1..Len(instances) |->
                          IF instances[i].id = procs[p].created
                          THEN [instances[i] EXCEPT !.tags = @ \cup {Tag(call.key, "true")}]
                          ELSE instances[i]]
                 ELSE SelectSeq(instances, LAMBDA x : x.id # call.id)
           /\ procs' = [procs EXCEPT ![p].ops = Tail(@),
                                     ![p].created = IF call.op = "create" THEN id ELSE @]
    /\ UNCHANGED <<d, maxRetries, pc, attempt, initialBackoff, backoff, calls, sleeps, result,
                   last, prev, calc, environ, ident, overlapped, readers0>>

\* Invocation p returns.
Return(p) ==
    /\ procs[p].pc = "act"
    /\ procs[p].ops = <<>>
    /\ procs' = [procs EXCEPT ![p] = NoProc]
    /\ UNCHANGED <<instances, d, maxRetries, pc, attempt, initialBackoff, backoff, calls,
                   sleeps, result, last, prev, calc, environ, ident, overlapped, readers0>>

Invocation(p) == ReadInventory(p) \/ DirectoryCall(p) \/ Return(p)

NextConcurrent == (\E p \in Procs : Invocation(p)) \/ DirectoryProgress

SpecConcurrent == InitConcurrent /\ [][NextConcurrent]_vars

----------------------------------------------------------------------------
(* The invocations against a cluster whose membership does not flag        *)
(* exactly one member as writer: none is flagged, or two are.              *)

MaxMembers == 2

\* The tags of a member: none, or the tags of both modes.
MemberTagSets == {{}} \cup WriterTagSets

Members(flags, tags) ==
    [i \in 1..Len(flags) |->
        [id |-> i, status |-> "available", tags |-> tags[i], isWriter |-> flags[i]]]

Writers(inst) == {i \in 1..Len(inst) : inst[i].isWriter}

InitTopology ==
    /\ \E n \in 1..MaxMembers :
         \E flags \in [1..n -> BOOLEAN], tags \in [1..n -> MemberTagSets] :
            /\ Cardinality(Writers(Members(flags, tags))) # 1
            /\ instances = Members(flags, tags)
    /\ d = NoD
    /\ maxRetries = 0
    /\ pc = "idle"
    /\ attempt = 0
    /\ initialBackoff = 0
    /\ backoff = 0
    /\ calls = <<>>
    /\ sleeps = <<>>
    /\ result = "none"
    /\ last = NoAttempt
    /\ prev = NoPrev
    /\ calc = NoCalc
    /\ environ = NoEnv
    /\ ident = NoIdent
    /\ procs = NoProcs
    /\ overlapped = FALSE
    /\ readers0 = 0

SpecTopology == InitTopology /\ [][Next]_vars

----------------------------------------------------------------------------
(* The invocations of a deployment with a small MAX_CAPACITY, one after    *)
(* the other, against a cluster that has fewer readers than that, as many, *)
(* or more.                                                                *)

BoundCap == 2

MaxBoundReaders == 3

BoundEnvironments == {[env EXCEPT !.MaxCapacity = BoundCap] : env \in Environments}

InitBound ==
    /\ \E n \in 0..MaxBoundReaders, writerTags \in WriterTagSets :
         \E kinds \in [1..n -> [status : {"available"}, tags : MemberTagSets]] :
            /\ instances = Listing(writerTags, kinds)
            /\ readers0 = n
    /\ d = NoD
    /\ maxRetries = 0
    /\ pc = "idle"
    /\ attempt = 0
    /\ initialBackoff = 0
    /\ backoff = 0
    /\ calls = <<>>
    /\ sleeps = <<>>
    /\ result = "none"
    /\ last = NoAttempt
    /\ prev = NoPrev
    /\ calc = NoCalc
    /\ environ = NoEnv
    /\ ident = NoIdent
    /\ procs = NoProcs
    /\ overlapped = FALSE

\* handler, for a deployment whose MAX_CAPACITY is BoundCap.
InvokeBound ==
    /\ pc = "idle"
    /\ \E env \in BoundEnvironments :
         \E snsMessage \in Messages(env) :
            d' = processScaling(NewDocumentDB(env), snsMessage)
    /\ maxRetries' \in {0, MaxRetries}
    /\ pc' = "retry"
    /\ attempt' = 1
    /\ initialBackoff' = InitialBackoff
    /\ backoff' = initialBackoff'
    /\ calls' = <<>>
    /\ sleeps' = <<>>
    /\ result' = "none"
    /\ last' = NoAttempt
    /\ UNCHANGED <<instances, prev, calc, environ, ident, procs, overlapped, readers0>>

NextBound == InvokeBound \/ Attempt \/ Sleep \/ Exhausted \/ Finish \/ DirectoryProgress

SpecBound == InitBound /\ [][NextBound]_vars

----------------------------------------------------------------------------
(* The capacity calculator alone: CalculateDesiredCapacity applied to the  *)
(* inputs Init draws.  The handler validates neither TARGET_VALUE nor      *)
(* MIN_CAPACITY <= MAX_CAPACITY, so a zero target and min > max are drawn  *)
(* as well.                                                                *)

CalcMetricNums == {0, 10, 20, 50, 80, 125, 300}

CalcTargets == {0, 30, 50}

CalcInputs ==
    UNION {[done : {FALSE},
            d : {[NoD EXCEPT !.MinCapacity = lo, !.MaxCapacity = hi, !.TargetValue = t]},
            metric : {<<num, den>>},
            current : {cur},
            nanInt : IF t = 0 /\ num * cur = 0 THEN NaNInts ELSE {0},
            out : {0}] :
              lo \in 0..MaxCalcCap, hi \in 0..MaxCalcCap, t \in CalcTargets,
              num \in CalcMetricNums, den \in 1..MaxCalcDen, cur \in 0..MaxCalcCurrent}

InitCalc ==
    /\ instances = <<>>
    /\ d = NoD
    /\ maxRetries = 0
    /\ pc = "idle"
    /\ attempt = 0
    /\ initialBackoff = 0
    /\ backoff = 0
    /\ calls = <<>>
    /\ sleeps = <<>>
    /\ result = "none"
    /\ last = NoAttempt
    /\ prev = NoPrev
    /\ calc \in CalcInputs
    /\ environ = NoEnv
    /\ ident = NoIdent
    /\ procs = NoProcs
    /\ overlapped = FALSE
    /\ readers0 = 0

Calculate ==
    /\ ~calc.done
    /\ calc' = [calc EXCEPT !.done = TRUE,
                            !.out = CalculateDesiredCapacity(calc.d, calc.metric,
                                                             calc.current, calc.nanInt)]
    /\ UNCHANGED <<instances, d, maxRetries, pc, attempt, initialBackoff, backoff, calls, sleeps,
                   result, last, prev, environ, ident, procs, overlapped, readers0>>

NextCalc == Calculate

SpecCalc == InitCalc /\ [][NextCalc]_vars

----------------------------------------------------------------------------
(* executeWithRetry alone, around an action that fails or succeeds as it   *)
(* likes.  MAX_RETRIES and INITIAL_BACKOFF are read with strconv.Atoi and  *)
(* not validated: zero and negative values are drawn as well.              *)

MaxRetryAttempts == 8

RetryCounts == -1..MaxRetryAttempts

InitialBackoffs == {-1, 0, 1, 3, 5, 32, 40}

InitRetry ==
    /\ instances = <<>>
    /\ d = NoD
    /\ maxRetries = 0
    /\ pc = "idle"
    /\ attempt = 0
    /\ initialBackoff = 0
    /\ backoff = 0
    /\ calls = <<>>
    /\ sleeps = <<>>
    /\ result = "none"
    /\ last = NoAttempt
    /\ prev = NoPrev
    /\ calc = NoCalc
    /\ environ = NoEnv
    /\ ident = NoIdent
    /\ procs = NoProcs
    /\ overlapped = FALSE
    /\ readers0 = 0

\* processScaling: executeWithRetry is entered with the handler's MAX_RETRIES
\* and INITIAL_BACKOFF.
InvokeRetry ==
    /\ pc = "idle"
    /\ maxRetries' \in RetryCounts
    /\ initialBackoff' \in InitialBackoffs
    /\ backoff' = initialBackoff'
    /\ calls' = <<>>
    /\ pc' = "retry"
    /\ attempt' = 1
    /\ sleeps' = <<>>
    /\ result' = "none"
    /\ UNCHANGED <<instances, d, last, prev, calc, environ, ident, procs, overlapped, readers0>>

\* The mutant sleeps after a success as after a failure.
ActionCall_SleepsAfterSuccess ==
    /\ pc = "retry"
    /\ attempt <= maxRetries
    /\ \E err \in BOOLEAN :
         /\ calls' = Append(calls, err)
         /\ pc' = "sleep"
         /\ result' = IF err THEN result ELSE "ok"
    /\ UNCHANGED <<instances, d, maxRetries, attempt, initialBackoff, backoff, sleeps,
                   last, prev, calc, environ, ident, procs, overlapped, readers0>>

\* executeWithRetry: action(ctx) of one iteration, returning an error or nil.
ActionCall ==
    /\ pc = "retry"
    /\ attempt <= maxRetries
    /\ \E err \in BOOLEAN :
         /\ calls' = Append(calls, err)
         /\ pc' = IF err THEN "sleep" ELSE "done"
         /\ result' = IF err THEN result ELSE "ok"
    /\ UNCHANGED <<instances, d, maxRetries, attempt, initialBackoff, backoff, sleeps,
                   last, prev, calc, environ, ident, procs, overlapped, readers0>>

NextRetry == InvokeRetry \/ ActionCall \/ Sleep \/ Exhausted \/ Finish

SpecRetry == InitRetry /\ [][NextRetry]_vars

\* The loop of executeWithRetry is sequential code: the action returns, a
\* sleep ends, the next statement runs.
SpecRetryFair == SpecRetry /\ WF_vars(ActionCall \/ Sleep \/ Exhausted)

----------------------------------------------------------------------------
(* Properties of CalculateDesiredCapacity (SpecCalc).                      *)

\* The calculator has run on a non-negative capacity and metric, a positive
\* target and MinCapacity <= MaxCapacity.
CalcInDomain ==
    /\ calc.done
    /\ calc.current >= 0
    /\ calc.metric[1] >= 0
    /\ calc.d.TargetValue > 0
    /\ calc.d.MinCapacity <= calc.d.MaxCapacity

\* C1: for currentCapacity >= 0, a metric value >= 0, targetValue > 0 and
\* MinCapacity <= MaxCapacity, the value CalculateDesiredCapacity returns
\* lies between MinCapacity and MaxCapacity.
C1_ResultWithinBounds ==
    CalcInDomain =>
        /\ calc.d.MinCapacity <= calc.out
        /\ calc.out <= calc.d.MaxCapacity

\* The upper bound acted: the proportional capacity is above MaxCapacity and
\* the result is MaxCapacity.
C1_Witness ==
    /\ CalcInDomain
    /\ calc.metric[1] * calc.current >
           calc.d.MaxCapacity * calc.metric[2] * calc.d.TargetValue
    /\ calc.out = calc.d.MaxCapacity

Clamp(r, lo, hi) == IF r < lo THEN lo ELSE IF r > hi THEN hi ELSE r

\* r is the rounding of n/q (q > 0) the claim names: up when n/q > current,
\* down otherwise.
IsRounded(r, n, q, current) ==
    IF n > current * q
    THEN (r - 1) * q < n /\ n <= r * q
    ELSE r * q <= n /\ n < (r + 1) * q

CalcCase(metric, current, target, lo, hi) ==
    /\ calc.done
    /\ calc.metric = <<metric, 1>>
    /\ calc.current = current
    /\ calc.d.TargetValue = target
    /\ calc.d.MinCapacity = lo
    /\ calc.d.MaxCapacity = hi

----------------------------------------------------------------------------
(* Properties of one reconciliation (Spec).  last is the attempt that has  *)
(* just run: last.pre the listing it started from, whose identifiers are   *)
(* the positions; an instance it created has the next identifiers.         *)

ModeTagKey == IF d.ScheduledScaling THEN SchedulerTagKey ELSE MetricTagKey

Readers(inst) == {i \in 1..Len(inst) : ~inst[i].isWriter}

\* The readers of the listing that carry key with the value "true".
Owned(inst, key) == {i \in Readers(inst) : Tag(key, "true") \in inst[i].tags}

Elements(sq) == {sq[i] : i \in 1..Len(sq)}

\* The instances DeleteDBInstance was called for, and those it deleted.
DeleteTargets == {call.id : call \in Elements(last.deleteCalls)}

Deleted == {call.id : call \in {c \in Elements(last.deleteCalls) : c.ok}}

InRange(k) == d.MinCapacity <= k /\ k <= d.MaxCapacity

\* C3: every DeleteDBInstance call of an invocation targets an instance that
\* carries the tag of the invocation's mode with the value "true"
\* (docdb-autoscaler-created in metric mode, docdb-autoscaler-scheduler in
\* schedule mode).
C3_OwnershipIsolation ==
    last.ran =>
        \A id \in DeleteTargets :
            /\ id \in 1..Len(last.pre)
            /\ Tag(ModeTagKey, "true") \in last.pre[id].tags

\* A schedule-mode reconciliation deleted an instance while an available
\* reader owned by the metric mode only was listed, and left it alone.
C3_Witness ==
    /\ last.ran
    /\ d.ScheduledScaling
    /\ Deleted # {}
    /\ \E j \in Owned(last.pre, MetricTagKey) \ Owned(last.pre, SchedulerTagKey) :
          /\ last.pre[j].status = "available"
          /\ j \notin DeleteTargets

\* C4: no DeleteDBInstance call targets the instance that cluster membership
\* reports as the writer, and the cluster keeps its one writer: the engine
\* neither deletes the writer nor creates one.
C4_WriterNeverDeleted ==
    /\ Cardinality({i \in 1..Len(instances) : instances[i].isWriter}) = 1
    /\ last.ran =>
          \A id \in DeleteTargets :
              /\ id \in 1..Len(last.pre)
              /\ ~last.pre[id].isWriter

\* The writer is available, carries the tag of the mode and is listed before
\* the instance that was deleted.
C4_Witness ==
    /\ last.ran
    /\ \E wr \in 1..Len(last.pre) :
          /\ last.pre[wr].isWriter
          /\ last.pre[wr].status = "available"
          /\ Tag(ModeTagKey, "true") \in last.pre[wr].tags
          /\ \E id \in Deleted : id > wr

\* C5, as the specification states it: a reconciliation that returns success
\* and started with a reader count inside [MinCapacity, MaxCapacity] leaves
\* a reader count inside [MinCapacity, MaxCapacity].
C5_ReaderCountStaysInRange ==
    (last.ran /\ ~last.err /\ InRange(NReaders(last.pre))) =>
        InRange(NReaders(instances))

\* A schedule-mode reconciliation started with a scheduler-owned reader.
ScaledOut ==
    /\ last.ran
    /\ d.ScheduledScaling
    /\ Owned(last.pre, SchedulerTagKey) # {}

\* C7, as the specification states it: with a scheduler-owned reader at the
\* start, a schedule-mode reconciliation that returns success has deleted
\* every scheduler-owned reader and created none.
C7_AsStated ==
    (ScaledOut /\ ~last.err) =>
        /\ Deleted = Owned(last.pre, SchedulerTagKey)
        /\ last.createdIds = <<>>

\* C7: with a scheduler-owned reader at the start, a schedule-mode
\* reconciliation creates no instance, and when it returns success with
\* dry-run off it has deleted every scheduler-owned reader that was in
\* available status, and no other instance.
C7_FullScaleIn ==
    ScaledOut =>
        /\ last.createdIds = <<>>
        /\ last.n["CreateDBInstance"] = 0
        /\ (~last.err /\ ~d.DryRun) =>
               Deleted = {i \in Owned(last.pre, SchedulerTagKey) :
                             last.pre[i].status = "available"}

\* Two scheduler-owned readers were deleted by one reconciliation.
C7_Witness ==
    /\ ScaledOut
    /\ ~last.err
    /\ ~d.DryRun
    /\ Cardinality(Deleted) >= 2

\* C8: a metric-mode reconciliation issues at most one DeleteDBInstance
\* call, whatever the gap between current and desired capacity; its
\* scale-out issues at most desired - current CreateDBInstance calls, and
\* exactly that many when it returns success with dry-run off.
C8_AtMostOneDelete ==
    (last.ran /\ ~d.ScheduledScaling) =>
        /\ Len(last.deleteCalls) <= 1
        /\ last.n["DeleteDBInstance"] <= 1
        /\ last.branch = "out" =>
               last.n["CreateDBInstance"] + last.current <= last.desired
        /\ (last.branch = "out" /\ ~last.err /\ ~d.DryRun) =>
               last.n["CreateDBInstance"] + last.current = last.desired
        /\ last.branch # "out" => last.n["CreateDBInstance"] = 0

\* The desired capacity is two or more below the current one, and one
\* DeleteDBInstance call was issued.
C8_Witness ==
    /\ last.ran
    /\ ~d.ScheduledScaling
    /\ last.branch = "in"
    /\ last.desired + 2 <= last.current
    /\ Len(last.deleteCalls) = 1

\* C9: a metric-mode reconciliation whose desired capacity equals the
\* current reader count issues no CreateDBInstance, DeleteDBInstance or
\* AddTagsToResource call, sends no notification and returns success; the
\* listing is unchanged.
C9_NoOpWhenEqual ==
    (last.ran /\ ~d.ScheduledScaling /\ last.branch # "none"
        /\ last.desired = last.current) =>
        /\ last.n["CreateDBInstance"] = 0
        /\ last.n["DeleteDBInstance"] = 0
        /\ last.n["AddTagsToResource"] = 0
        /\ last.n["Publish"] = 0
        /\ last.createdIds = <<>>
        /\ last.deleteCalls = <<>>
        /\ last.tagCalls = <<>>
        /\ last.notes = <<>>
        /\ ~last.err
        /\ instances = last.pre

\* Desired and current capacity are equal, with two readers or more sampled.
C9_Witness ==
    /\ last.ran
    /\ ~d.ScheduledScaling
    /\ ~d.DryRun
    /\ last.branch # "none"
    /\ last.desired = last.current
    /\ last.current >= 2
    /\ last.n["GetMetricStatistics"] = last.current

\* A schedule-mode reconciliation with dry-run off, a positive delta, no
\* scheduler-owned reader and current + delta inside the capacity range.
ScaleOutInRange ==
    /\ last.ran
    /\ d.ScheduledScaling
    /\ ~d.DryRun
    /\ Owned(last.pre, SchedulerTagKey) = {}
    /\ d.ScheduleNumberReplicas > 0
    /\ InRange(NReaders(last.pre) + d.ScheduleNumberReplicas)

\* n CreateDBInstance calls, n AddTagsToResource calls, each writing
\* docdb-autoscaler-scheduler = "true" on an instance just created, no
\* DeleteDBInstance call and one scale-out notification with the count n.
ScaledOutBy(n) ==
    /\ last.n["CreateDBInstance"] = n
    /\ Len(last.createdIds) = n
    /\ last.n["AddTagsToResource"] = n
    /\ Len(last.tagCalls) = n
    /\ \A i \in 1..Len(last.tagCalls) :
          /\ i <= Len(last.createdIds)
          /\ last.tagCalls[i].id = last.createdIds[i]
          /\ last.tagCalls[i].key = SchedulerTagKey
          /\ last.tagCalls[i].value = "true"
    /\ last.n["DeleteDBInstance"] = 0
    /\ last.deleteCalls = <<>>
    /\ Len(last.notes) = 1
    /\ \A i \in 1..Len(last.notes) :
          last.notes[i].kind = "scale-out" /\ last.notes[i].count = n

----------------------------------------------------------------------------
(* Properties of two schedule-mode reconciliations in succession           *)
(* (SpecToggle): prev is the one that ended the invocation before, last    *)
(* the first of the running invocation.                                    *)

PrevCreated == Elements(prev.createdIds)

\* Two schedule-mode reconciliations, the first starting with no
\* scheduler-owned reader, both returning success.
ToggleRuns ==
    /\ prev.ran
    /\ prev.d.ScheduledScaling
    /\ Owned(prev.pre, SchedulerTagKey) = {}
    /\ last.ran
    /\ attempt = 1
    /\ d.ScheduledScaling
    /\ ~last.err

\* C6, as the specification states it: the first run scales out and the
\* second scales in, deleting exactly the instances the first created.
C6_AsStated ==
    ToggleRuns =>
        /\ prev.branch = "out"
        /\ last.branch = "in"
        /\ Deleted = PrevCreated

\* The first run, dry-run off, created an instance or more and its tag
\* write on each succeeded; they are all available when the second run,
\* dry-run off, starts.
ToggleReady ==
    /\ ToggleRuns
    /\ ~prev.d.DryRun
    /\ ~d.DryRun
    /\ PrevCreated # {}
    /\ \A id \in PrevCreated :
          /\ \E call \in Elements(prev.tagCalls) : call.id = id /\ call.ok
          /\ id \in 1..Len(last.pre)
          /\ last.pre[id].status = "available"

\* C6: when the first run created an instance or more, tagged each of
\* them, and they are all available as the second run starts (dry-run off
\* in both), the first run was a scale-out and the second is a scale-in
\* that deletes exactly the instances the first created and creates none.
C6_Toggle ==
    ToggleReady =>
        /\ prev.branch = "out"
        /\ last.branch = "in"
        /\ Deleted = PrevCreated
        /\ last.createdIds = <<>>

\* The first run created two instances next to a reader that stays, and the
\* second deleted the two.
C6_Witness ==
    /\ ToggleReady
    /\ Cardinality(PrevCreated) = 2
    /\ Deleted = PrevCreated
    /\ NReaders(instances) >= 1

----------------------------------------------------------------------------
(* Properties of one reconciliation (Spec): schedule-mode scale-in and     *)
(* dry-run.                                                                *)

\* A schedule-mode reconciliation with dry-run off that started with a
\* scheduler-owned reader or more, all of them available.
ScaleInAllAvailable ==
    /\ ScaledOut
    /\ ~d.DryRun
    /\ \A i \in Owned(last.pre, SchedulerTagKey) : last.pre[i].status = "available"

\* k DeleteDBInstance calls, one for each scheduler-owned reader, no
\* CreateDBInstance call and one scale-in notification with the count k.
ScaledInBy(k) ==
    /\ last.n["DeleteDBInstance"] = k
    /\ Len(last.deleteCalls) = k
    /\ \A i, j \in 1..Len(last.deleteCalls) :
          last.deleteCalls[i].id = last.deleteCalls[j].id => i = j
    /\ DeleteTargets = Owned(last.pre, SchedulerTagKey)
    /\ last.n["CreateDBInstance"] = 0
    /\ last.createdIds = <<>>
    /\ Len(last.notes) = 1
    /\ \A i \in 1..Len(last.notes) :
          last.notes[i].kind = "scale-in" /\ last.notes[i].count = k

C12_DryRunFrame ==
    /\ [](d.DryRun =>
            /\ last.n["CreateDBInstance"] = 0
            /\ last.n["DeleteDBInstance"] = 0
            /\ last.n["AddTagsToResource"] = 0
            /\ last.createdIds = <<>>
            /\ last.deleteCalls = <<>>
            /\ last.tagCalls = <<>>
            /\ last.ran => instances = last.pre)
    /\ [][(d.DryRun \/ d'.DryRun) => instances' = instances]_vars

\* The second attempt of a dry-run invocation decided a scale-in of a
\* reader it may delete, and returned success.
C12_Witness ==
    /\ d.DryRun
    /\ last.ran
    /\ attempt = 2
    /\ ~last.err
    /\ last.branch = "in"
    /\ \E i \in Owned(last.pre, ModeTagKey) : last.pre[i].status = "available"

----------------------------------------------------------------------------
(* Properties of executeWithRetry (SpecRetry, SpecRetryFair).  calls holds *)
(* the outcome of each action(ctx) call of the invocation, sleeps the      *)
(* duration of each time.Sleep.                                            *)

AllCallsFailed == \A i \in 1..Len(calls) : calls[i]

\* executeWithRetry has returned the aggregate error.
RetriesExhausted == pc = "done" /\ result = "failed"

\* C13: for maxRetries >= 1, executeWithRetry never calls the action more
\* than maxRetries times; when every call failed, it has called the action
\* exactly maxRetries times when it returns, and it returns the aggregate
\* error, never success; and it does return.
C13_RetryExhaustion ==
    /\ [](maxRetries >= 1 => Len(calls) <= maxRetries)
    /\ []((pc = "done" /\ maxRetries >= 1 /\ AllCallsFailed) =>
              /\ result = "failed"
              /\ Len(calls) = maxRetries)
    /\ [](RetriesExhausted => AllCallsFailed)
    /\ (pc = "retry") ~> (pc = "done")

\* Eight calls, all failed, and the aggregate error.
C13_Witness ==
    /\ RetriesExhausted
    /\ maxRetries = MaxRetryAttempts
    /\ Len(calls) = MaxRetryAttempts
    /\ AllCallsFailed

\* C14, as the specification states it: the failure of the last attempt is
\* not followed by a sleep; an action that always fails, with
\* maxRetries = N >= 1, causes exactly N - 1 sleeps.
C14_NoSleepAfterLastAttempt ==
    (RetriesExhausted /\ maxRetries >= 1) => Len(sleeps) = maxRetries - 1

\* The sleep after the k-th failed call that the specification states.
StatedSleep(k) == Min(initialBackoff * 2^(k - 1), BackoffCap)

\* C15, as the specification states it: for every initialBackoff > 0 the
\* sleep after the k-th failed call lasts min(initialBackoff * 2^(k-1), 32)
\* seconds, and no sleep exceeds 32 seconds.
C15_BackoffSchedule ==
    initialBackoff > 0 =>
        \A k \in 1..Len(sleeps) :
            /\ sleeps[k] = StatedSleep(k)
            /\ sleeps[k] <= BackoffCap

----------------------------------------------------------------------------
(* Properties of one reconciliation (Spec): failures of the notifier and   *)
(* of the directory.                                                       *)

\* Two attempts returned the same result after the same directory calls,
\* leaving the same listing, and published the same notifications.
SameButPublish(a, b) ==
    /\ a.err = b.err
    /\ a.w.inst = b.w.inst
    /\ \A api \in APIs : a.w.n[api] = b.w.n[api]
    /\ a.w.createdIds = b.w.createdIds
    /\ a.w.tagCalls = b.w.tagCalls
    /\ a.w.deleteCalls = b.w.deleteCalls
    /\ a.w.branch = b.w.branch
    /\ Len(a.w.notes) = Len(b.w.notes)
    /\ \A i \in 1..Len(a.w.notes) :
          /\ a.w.notes[i].kind = b.w.notes[i].kind
          /\ a.w.notes[i].count = b.w.notes[i].count

PublishFails == {<<"Publish", 1>>}

\* C16: in both modes, an attempt whose notification fails returns the
\* result, makes the directory calls and leaves the listing of the same
\* attempt with the notification succeeding; an attempt that sent a
\* notification, delivered or not, returns success and ends the invocation
\* without a retry.
C16_NotificationNeverEscalates ==
    /\ (pc = "retry" /\ attempt <= maxRetries) =>
          \A in \in Inputs(instances, d) :
              in.faults = {} =>
                  SameButPublish(
                      ExecuteScalingAction(NewAttempt(instances, d, in)),
                      ExecuteScalingAction(NewAttempt(instances, d,
                                               [in EXCEPT !.faults = PublishFails])))
    /\ (last.ran /\ last.notes # <<>>) =>
          /\ ~last.err
          /\ pc = "done"
          /\ result = "ok"
          /\ Len(last.notes) = 1
          /\ last.n["Publish"] = 1

\* A scale-out created an instance, its notification failed, and the
\* invocation ended in success after that one attempt.
C16_Witness ==
    /\ last.ran
    /\ Len(last.createdIds) >= 1
    /\ Len(last.notes) = 1
    /\ \A i \in 1..Len(last.notes) : ~last.notes[i].ok
    /\ ~last.err
    /\ result = "ok"
    /\ Len(calls) = 1

\* The directory calls the specification names: inventory listing,
\* membership lookup, create, delete, tag read.
DirectoryCalls ==
    {"DescribeDBInstances", "DescribeDBClusters", "CreateDBInstance",
     "DeleteDBInstance", "ListTagsForResource"}

\* C17, as the specification states it: in either mode, an attempt in which
\* an inventory listing, a membership lookup, a creation, a deletion or a
\* tag read failed returns an error to executeWithRetry, which goes on to
\* the sleep and the next iteration.
C17_DirectoryFailuresPropagate ==
    (last.ran /\ last.failed \cap DirectoryCalls # {}) =>
        /\ last.err
        /\ pc = "sleep" \/ pc = "retry"

\* C19, as the specification states it: when an invocation ends in failure
\* after executeWithRetry has exhausted its attempts, a failure notification
\* has been published during that invocation.
C19_FailureNotified ==
    RetriesExhausted =>
        \E i \in 1..Len(last.invNotes) : last.invNotes[i].kind = "failure"

----------------------------------------------------------------------------
(* Properties of the handler's configuration (SpecConfig).                 *)

Unparsable(parsed) == parsed.err

\* The mode the handler runs in, once SCHEDULED_SCALING is read.
ScheduledMode ==
    environ.SCHEDULED_SCALING # "" /\ ParseBool(environ.SCHEDULED_SCALING).val

\* The handler returned an error before any call: executeWithRetry was not
\* entered, and no directory, metric or notifier call was made.
FailedBeforeAnyCall ==
    /\ pc = "done"
    /\ result = "config"
    /\ calls = <<>>
    /\ sleeps = <<>>
    /\ ~last.ran
    /\ \A api \in APIs : last.n[api] = 0
    /\ last.invNotes = <<>>

\* A variable the handler does not default is not set.
RequiredMissing ==
    \/ environ.SNS_TOPIC_ARN = ""
    \/ environ.CLUSTER_IDENTIFIER = ""
    \/ environ.MIN_CAPACITY = ""
    \/ environ.MAX_CAPACITY = ""
    \/ ScheduledMode /\ environ.SCHEDULE_NUMBER_REPLICAS = ""
    \/ ~ScheduledMode /\ (\/ environ.METRIC_NAME = ""
                          \/ environ.TARGET_VALUE = ""
                          \/ environ.SCALE_IN_COOLDOWN = ""
                          \/ environ.SCALE_OUT_COOLDOWN = "")

\* A variable the handler reads is set to a string that does not parse.
SetUnparsable ==
    \/ environ.MIN_CAPACITY # "" /\ Unparsable(Atoi(environ.MIN_CAPACITY))
    \/ environ.MAX_CAPACITY # "" /\ Unparsable(Atoi(environ.MAX_CAPACITY))
    \/ environ.SCHEDULED_SCALING # "" /\ Unparsable(ParseBool(environ.SCHEDULED_SCALING))
    \/ ScheduledMode /\ environ.SCHEDULE_NUMBER_REPLICAS # ""
          /\ Unparsable(Atoi(environ.SCHEDULE_NUMBER_REPLICAS))
    \/ ~ScheduledMode /\ environ.TARGET_VALUE # ""
          /\ Unparsable(ParseFloat(environ.TARGET_VALUE))
    \/ ~ScheduledMode /\ environ.SCALE_IN_COOLDOWN # ""
          /\ Unparsable(Atoi(environ.SCALE_IN_COOLDOWN))
    \/ ~ScheduledMode /\ environ.SCALE_OUT_COOLDOWN # ""
          /\ Unparsable(Atoi(environ.SCALE_OUT_COOLDOWN))
    \/ environ.DRYRUN # "" /\ Unparsable(ParseBool(environ.DRYRUN))
    \/ environ.MAX_RETRIES # "" /\ Unparsable(Atoi(environ.MAX_RETRIES))
    \/ environ.INITIAL_BACKOFF # "" /\ Unparsable(Atoi(environ.INITIAL_BACKOFF))

\* The mode flag or a retry setting is not set.
DefaultedMissing ==
    \/ environ.SCHEDULED_SCALING = ""
    \/ environ.MAX_RETRIES = ""
    \/ environ.INITIAL_BACKOFF = ""

Invoked == pc # "idle"

\* C18, as the specification states it: a setting among cluster identifier,
\* min/max capacity, mode flag, metric name/target (metric mode), schedule
\* delta (schedule mode), notification destination and retry settings that
\* is missing or unparsable makes the invocation fail before any call, and
\* executeWithRetry is not entered.
C18_AsStated ==
    (Invoked /\ (RequiredMissing \/ SetUnparsable \/ DefaultedMissing)) =>
        FailedBeforeAnyCall

\* C18: a missing SNS_TOPIC_ARN, CLUSTER_IDENTIFIER, MIN_CAPACITY,
\* MAX_CAPACITY, SCHEDULE_NUMBER_REPLICAS (schedule mode) or METRIC_NAME,
\* TARGET_VALUE, cooldown (metric mode), and an unparsable capacity, mode
\* flag, delta, target, cooldown, retry setting or dry-run flag, make the
\* invocation fail before
\* any directory, metric or notifier call, executeWithRetry not being
\* entered; with nothing else wrong, a mode flag that is not set means
\* metric mode, MAX_RETRIES not set means 5 and INITIAL_BACKOFF not set
\* means 1 second, and executeWithRetry is entered.
C18_ConfigurationErrors ==
    /\ (Invoked /\ (RequiredMissing \/ SetUnparsable)) => FailedBeforeAnyCall
    /\ (Invoked /\ ~RequiredMissing /\ ~SetUnparsable) =>
          /\ result # "config"
          /\ environ.SCHEDULED_SCALING = "" => ~d.ScheduledScaling
          /\ environ.MAX_RETRIES = "" => maxRetries = DefaultMaxRetries
          /\ environ.INITIAL_BACKOFF = "" => initialBackoff = InitialBackoff
    /\ result = "config" => FailedBeforeAnyCall

\* A schedule-mode deployment whose SCHEDULE_NUMBER_REPLICAS is not a
\* number: the handler has returned the error.
C18_Witness ==
    /\ FailedBeforeAnyCall
    /\ ScheduledMode
    /\ environ.SCHEDULE_NUMBER_REPLICAS = "abc"
    /\ environ.MAX_RETRIES = "2"

----------------------------------------------------------------------------
(* Properties of the identifier of a new instance (SpecIdent).             *)

\* C20, as the specification states it: for every non-empty cluster
\* identifier and every 9-digit suffix, the identifier handed to
\* CreateDBInstance has at most 63 characters, begins with a letter,
\* contains only letters, digits and hyphens, has no two consecutive
\* hyphens and does not end with a hyphen.
C20_IdentifierWellFormed ==
    (ident.done /\ ident.clusterID # <<>>) =>
        /\ ~ident.panic
        /\ ident.out # <<>>
        /\ Len(ident.out) <= MaxIdentifierLength
        /\ isLetter(ident.out[1])
        /\ \A i \in 1..Len(ident.out) : isValidDBInstanceIdentifierChar(ident.out[i])
        /\ \A i \in 1..(Len(ident.out) - 1) : ~(ident.out[i] = "-" /\ ident.out[i + 1] = "-")
        /\ ident.out[Len(ident.out)] # "-"

----------------------------------------------------------------------------
(* Properties of two invocations at the same time (SpecConcurrent).        *)

\* C21: the reader count of the cluster exceeds MaxCapacity only after an
\* invocation has read the inventory while another invocation was between
\* its own read and its return; invocations that run one at a time keep the
\* reader count at or below MaxCapacity.
C21_BoundNeedsSerialization ==
    NReaders(instances) > d.MaxCapacity => overlapped

\* Two invocations have read the same inventory and both have created their
\* replicas: the reader count is above MaxCapacity.
C21_Witness ==
    /\ overlapped
    /\ NReaders(instances) > d.MaxCapacity
    /\ \A p \in Procs : procs[p].pc = "act" /\ procs[p].ops = <<>>

----------------------------------------------------------------------------
(* Properties of the reconciliations of the invocations (Spec), continued. *)

\* A reconciliation of an invocation whose configuration is a schedule-mode
\* one and whose SNS message is {NumberReplicas = MaxDelta}, started with no
\* scheduler-owned reader.  (processScaling clears ScheduledScaling for every
\* message; a metric-mode configuration leaves ScheduleNumberReplicas at 0.)
MessageOnSchedule ==
    /\ last.ran
    /\ ~d.ScheduledScaling
    /\ d.ScheduleNumberReplicas = MaxDelta
    /\ Owned(last.pre, SchedulerTagKey) = {}

\* C22, as the specification states it: the reconciliation of a
\* schedule-mode invocation that carries a message {NumberReplicas = n},
\* started with no scheduler-owned reader, is the schedule-mode one with n
\* as its delta: when it returns success with dry-run off it has created
\* clamp(current + n, MinCapacity, MaxCapacity) - current replicas (none
\* when that is negative) and tagged them as the scheduler's.
C22_MessageOverridesDelta ==
    (MessageOnSchedule /\ ~last.err /\ ~d.DryRun) =>
        LET current == NReaders(last.pre)
            target == Clamp(current + d.ScheduleNumberReplicas, d.MinCapacity, d.MaxCapacity)
        IN  /\ Len(last.createdIds) = IF target > current THEN target - current ELSE 0
            /\ \A i \in 1..Len(last.tagCalls) : last.tagCalls[i].key = SchedulerTagKey

\* A schedule-mode reconciliation with dry-run off and a delta that is not
\* negative, whose inventory read found no scheduler-owned reader.
ScheduledScaleOutCase ==
    /\ last.ran
    /\ d.ScheduledScaling
    /\ ~d.DryRun
    /\ d.ScheduleNumberReplicas >= 0
    /\ d.MinCapacity <= d.MaxCapacity
    /\ Owned(last.pre, SchedulerTagKey) = {}

\* max(current, clamp(current + delta, MinCapacity, MaxCapacity))
ClampedTarget(current) ==
    LET target == Clamp(current + d.ScheduleNumberReplicas, d.MinCapacity, d.MaxCapacity)
    IN  IF target > current THEN target ELSE current

\* The readers of the listing that the running invocation did not create.
ReadersAtStart == {i \in Readers(last.pre) : last.pre[i].id \notin last.invCreated}

C24_NegativeDeltaRemoves ==
    (/\ last.ran
     /\ ~last.err
     /\ d.ScheduledScaling
     /\ ~d.DryRun
     /\ d.ScheduleNumberReplicas < 0)
    => /\ Cardinality(Deleted) = 0 - d.ScheduleNumberReplicas
       /\ last.createdIds = <<>>
       /\ \A i \in 1..Len(last.notes) : last.notes[i].kind # "scale-out"

\* C25, as the specification states it: the count of a scale-in notification
\* of a schedule-mode reconciliation with dry-run off is the number of
\* DeleteDBInstance calls the reconciliation issued.
C25_ScaleInCountIsRemoved ==
    (last.ran /\ d.ScheduledScaling /\ ~d.DryRun) =>
        \A i \in 1..Len(last.notes) :
            last.notes[i].kind = "scale-in" =>
                /\ last.notes[i].count = Len(last.deleteCalls)
                /\ last.notes[i].count = last.n["DeleteDBInstance"]

\* C26, as the specification states it: a metric-mode reconciliation with
\* dry-run off sends a scale-in notification only when exactly one
\* DeleteDBInstance call of it succeeded, the deleted instance being an
\* available reader that carried the metric-mode tag.
C26_ScaleInNotifiedOnlyAfterDelete ==
    (last.ran /\ ~d.ScheduledScaling /\ ~d.DryRun) =>
        \A i \in 1..Len(last.notes) :
            last.notes[i].kind = "scale-in" =>
                /\ last.notes[i].count = 1
                /\ Cardinality(Deleted) = 1
                /\ \A j \in Owned(last.pre, MetricTagKey) :
                      last.pre[j].id \in Deleted => last.pre[j].status = "available"
                /\ Deleted \subseteq {last.pre[j].id : j \in Owned(last.pre, MetricTagKey)}

\* C27, as the specification states it: with dry-run off the count of every
\* scale-out notification is the number of CreateDBInstance calls of the
\* reconciliation that succeeded; in metric mode that number is desired -
\* current, and every instance created carries the metric-mode tag.
C27_ScaleOutCountIsAdded ==
    (last.ran /\ ~d.DryRun) =>
        \A i \in 1..Len(last.notes) :
            last.notes[i].kind = "scale-out" =>
                /\ last.notes[i].count = Len(last.createdIds)
                /\ ~d.ScheduledScaling =>
                      /\ last.notes[i].count = last.desired - last.current
                      /\ \A j \in 1..Len(instances) :
                            instances[j].id \in Elements(last.createdIds) =>
                                Tag(MetricTagKey, "true") \in instances[j].tags

\* The tag writes of the reconciliation that returned an error.
FailedTagWrites == {i \in 1..Len(last.tagCalls) : ~last.tagCalls[i].ok}

\* C28: a failed AddTagsToResource call does not end the reconciliation.
\* When tag writes (and notifications) are the only calls that fail, the
\* reconciliation returns success and has created every replica it decided
\* to add; and after any reconciliation, the instance of a failed tag write
\* is in the cluster without the ownership tag that was to be written.
C28_TagWriteBestEffort ==
    (last.ran /\ FailedTagWrites # {}) =>
        /\ (last.failed \subseteq {"AddTagsToResource", "Publish"}) =>
              /\ ~last.err
              /\ Len(last.createdIds) = last.replicas
              /\ Len(last.tagCalls) = last.replicas
        /\ \A i \in FailedTagWrites :
              /\ last.tagCalls[i].id = last.createdIds[i]
              /\ \E j \in 1..Len(instances) :
                    /\ instances[j].id = last.tagCalls[i].id
                    /\ ~instances[j].isWriter
                    /\ instances[j].tags = {}

\* The tag write of the first of two replicas failed; the second replica was
\* created and tagged, and the reconciliation returned success.
C28_Witness ==
    /\ last.ran
    /\ ~last.err
    /\ Len(last.createdIds) = 2
    /\ Len(last.tagCalls) = 2
    /\ ~last.tagCalls[1].ok
    /\ last.tagCalls[2].ok
    /\ \E j \in 1..Len(instances) :
          instances[j].id = last.createdIds[1] /\ instances[j].tags = {}

\* A metric-mode reconciliation that cannot sample every reader: it read a
\* listing without readers, or a GetMetricStatistics call of it failed or
\* answered no datapoint.
SamplingIncomplete ==
    /\ last.ran
    /\ ~d.ScheduledScaling
    /\ \/ NReaders(last.pre) = 0
       \/ "GetMetricStatistics" \in last.failed
       \/ "Datapoints" \in last.failed

\* C30: a metric-mode reconciliation that cannot sample every reader
\* returns an error, decides nothing and issues no CreateDBInstance,
\* DeleteDBInstance, AddTagsToResource or notification call; the invocation
\* it belongs to has created no instance and sent no notification when it
\* started without readers.
C30_SamplingAllOrNothing ==
    SamplingIncomplete =>
        /\ last.err
        /\ last.branch = "none"
        /\ last.n["CreateDBInstance"] = 0
        /\ last.n["DeleteDBInstance"] = 0
        /\ last.n["AddTagsToResource"] = 0
        /\ last.n["Publish"] = 0
        /\ last.notes = <<>>
        /\ instances = last.pre
        /\ NReaders(last.pre) = 0 => (last.invCreated = {} /\ last.invNotes = <<>>)

\* The first of two readers answered a datapoint, the second none.
C30_Witness ==
    /\ SamplingIncomplete
    /\ NReaders(last.pre) = 2
    /\ last.n["GetMetricStatistics"] = 2
    /\ "Datapoints" \in last.failed
    /\ last.err

\* C36, as the specification states it: in a schedule-mode invocation
\* that started with no scheduler-owned reader, no attempt takes the
\* scale-in branch and no attempt issues a DeleteDBInstance call; the retry
\* after a scale-out that failed part-way decides a scale-out again.
C36_RetryContinuesScaleOut ==
    (/\ last.ran
     /\ d.ScheduledScaling
     /\ ~d.DryRun
     /\ Owned(last.pre, SchedulerTagKey) \cap ReadersAtStart = {})
    => /\ last.branch # "in"
       /\ last.n["DeleteDBInstance"] = 0

\* The notifications of two attempts are the same, in kind and count.
SameNotifications(a, b) ==
    /\ Len(a.w.notes) = Len(b.w.notes)
    /\ \A i \in 1..Len(a.w.notes) :
          /\ a.w.notes[i].kind = b.w.notes[i].kind
          /\ a.w.notes[i].count = b.w.notes[i].count

\* The attempt of the running invocation on the listing inst, with dry-run
\* as given and the answers in.
AttemptWith(inst, dry, in) ==
    ExecuteScalingAction(NewAttempt(inst, [d EXCEPT !.DryRun = dry], in))

\* The dry-run attempt leaves the listing as it is; when the attempt with
\* dry-run off returns success, the dry-run attempt does too, with the same
\* decision and the same notifications.
DryRunNotifiesAlike(dry, wet) ==
    /\ dry.w.inst = instances
    /\ dry.w.createdIds = <<>>
    /\ dry.w.deleteCalls = <<>>
    /\ ~wet.err =>
          /\ ~dry.err
          /\ dry.w.branch = wet.w.branch
          /\ SameNotifications(dry, wet)

\* A schedule-mode dry-run attempt that returned success is followed, on the
\* listing it left, by an attempt that takes the same branch.
DryRunRepeats(dry) ==
    (d.ScheduledScaling /\ ~dry.err) =>
        \A in2 \in Inputs(Renumber(dry.w.inst), d) :
            LET again == AttemptWith(Renumber(dry.w.inst), TRUE, in2)
            IN  ~again.err => again.w.branch = dry.w.branch

----------------------------------------------------------------------------
(* Properties of the invocations against a cluster without a unique        *)
(* writer (SpecTopology).                                                  *)

\* C29, as the specification states it: a reconciliation that reads a
\* membership with no member flagged as writer, or with more than one,
\* returns an error and issues no CreateDBInstance and no DeleteDBInstance
\* call.
C29_NoUniqueWriterFails ==
    (last.ran /\ Cardinality(Writers(last.pre)) # 1) =>
        /\ last.err
        /\ last.n["CreateDBInstance"] = 0
        /\ last.n["DeleteDBInstance"] = 0

----------------------------------------------------------------------------
(* Properties of the reconciliations of the invocations (Spec): removal,   *)
(* retries, dry-run and untagged replicas.                                 *)

\* The instances of the listing the reconciliation read that were not in
\* available status.
NotAvailable(inst) == {i \in 1..Len(inst) : inst[i].status # "available"}

\* C31: every DeleteDBInstance call of a reconciliation, in either mode,
\* names an instance that the listing read by the reconciliation showed in
\* available status; an instance the listing showed in another status is
\* named by no call and is in the cluster after the reconciliation.
C31_OnlyAvailableRemoved ==
    last.ran =>
        /\ \A id \in DeleteTargets :
              \E j \in 1..Len(last.pre) :
                  last.pre[j].id = id /\ last.pre[j].status = "available"
        /\ \A j \in NotAvailable(last.pre) : last.pre[j].id \notin DeleteTargets
        /\ Cardinality(NotAvailable(instances)) >= Cardinality(NotAvailable(last.pre))

\* Of two scheduler-owned readers the available one was deleted and the one
\* being created was skipped.
C31_Witness ==
    /\ last.ran
    /\ ~last.err
    /\ d.ScheduledScaling
    /\ Cardinality(Deleted) = 1
    /\ \E j \in Owned(last.pre, SchedulerTagKey) :
          /\ last.pre[j].status # "available"
          /\ \E i \in 1..Len(instances) :
                instances[i].status # "available" /\ instances[i].tags = last.pre[j].tags

\* The instances of the listing that RemoveReplica may select: not the
\* writer, in available status, carrying the metric-mode tag.
Removable(inst) == {i \in Owned(inst, MetricTagKey) : inst[i].status = "available"}

\* The position in the listing read of the instance named id.
PositionOf(id) == CHOOSE j \in 1..Len(last.pre) : last.pre[j].id = id

----------------------------------------------------------------------------
(* Properties of executeWithRetry with any action (SpecRetry), continued.  *)

\* C33: when a call of the action returns nil, executeWithRetry returns nil
\* at once: the successful call is the k-th, k <= maxRetries, the k - 1
\* calls before it failed and each was followed by one sleep, and no call
\* and no sleep follows the success.
C33_StopsAtFirstSuccess ==
    /\ [](result = "ok" =>
            /\ pc = "done"
            /\ Len(calls) = attempt
            /\ attempt <= maxRetries
            /\ ~calls[attempt]
            /\ \A k \in 1..(attempt - 1) : calls[k]
            /\ Len(sleeps) = attempt - 1)
    /\ [][result = "ok" => (pc' = "idle" /\ calls' = <<>> /\ sleeps' = <<>>)]_vars

\* The third call succeeded after two failures and two sleeps.
C33_Witness ==
    /\ result = "ok"
    /\ pc = "done"
    /\ calls = <<TRUE, TRUE, FALSE>>
    /\ Len(sleeps) = 2
    /\ maxRetries > 3

----------------------------------------------------------------------------
(* Properties of the handler's configuration (SpecConfig), continued.      *)

\* C34, as the specification states it: a metric-mode reconciliation that
\* has evaluated CalculateDesiredCapacity runs with a TargetValue > 0; a
\* TARGET_VALUE that is not positive was rejected by the handler.
C34_TargetValidated ==
    (last.ran /\ ~d.ScheduledScaling /\ last.branch # "none") => d.TargetValue > 0

----------------------------------------------------------------------------
(* Properties of the invocations of a deployment with a small              *)
(* MAX_CAPACITY (SpecBound).                                               *)

----------------------------------------------------------------------------
(* Properties of executeWithRetry for every MAX_RETRIES (SpecRetry).       *)

\* C37, as the specification states it: for every maxRetries, zero and
\* negative values included, executeWithRetry has called the action at least
\* once when it returns, and when it returns an error a call has failed.
C37_AtLeastOneAttempt ==
    pc = "done" =>
        /\ Len(calls) >= 1
        /\ result = "failed" => \E k \in 1..Len(calls) : calls[k]

----------------------------------------------------------------------------
(* Replicas whose ownership tag could not be written.                      *)

\* The readers of a listing that carry no tag: the readers the engine
\* created and could not tag, and the untagged readers of the initial state.
Untagged(inst) == {i \in Readers(inst) : inst[i].tags = {}}

\* Every tag write of the attempt failed, and there was at least one.
AllTagWritesFailed ==
    /\ last.tagCalls # <<>>
    /\ FailedTagWrites = 1..Len(last.tagCalls)

\* C39 as stated: a schedule-mode attempt that finds replicas whose tag
\* write failed and no schedule-owned reader scales out again, so creates
\* at least one replica.
C39_AsStated ==
    (/\ last.ran /\ ~last.err
     /\ d.ScheduledScaling /\ ~d.DryRun
     /\ Cardinality(Untagged(last.pre)) > MaxInitReaders
     /\ Owned(last.pre, SchedulerTagKey) = {}) =>
        (last.branch = "out" /\ last.createdIds # <<>>)

\* C39: a reader without ownership tag, and so a reader the engine created
\* and could not tag, is never the target of a DeleteDBInstance call and
\* never leaves the listing, in either mode; a schedule-mode scale-out whose
\* tag writes all failed leaves no schedule-owned reader, nothing but an
\* attempt changes which readers are schedule-owned, and a schedule-mode
\* attempt that finds no schedule-owned reader takes the scale-out branch
\* (adds replicas, or returns at MAX_CAPACITY) and never the scale-in branch.
C39_UntaggedNeverRemoved ==
    /\ [](last.ran =>
            /\ \A id \in DeleteTargets : PositionOf(id) \notin Untagged(last.pre)
            /\ (d.ScheduledScaling /\ Owned(last.pre, SchedulerTagKey) = {}) =>
                    (last.branch # "in" /\ last.deleteCalls = <<>>)
            /\ (d.ScheduledScaling /\ last.branch = "out" /\ AllTagWritesFailed) =>
                    Owned(instances, SchedulerTagKey) = {}
            /\ (d.ScheduledScaling /\ ~last.err /\ Owned(last.pre, SchedulerTagKey) = {}) =>
                    last.branch \in {"out", "noop"})
    /\ [][/\ Cardinality(Untagged(instances')) >= Cardinality(Untagged(instances))
          /\ pc # "retry" =>
                Owned(instances', SchedulerTagKey) = Owned(instances, SchedulerTagKey)]_vars

\* A schedule-mode invocation finds more untagged readers than the initial
\* state can hold, so replicas whose tag write failed, and scales out again.
C39_Witness ==
    /\ last.ran /\ ~last.err
    /\ d.ScheduledScaling /\ ~d.DryRun
    /\ Cardinality(Untagged(last.pre)) > MaxInitReaders
    /\ last.branch = "out"
    /\ last.createdIds # <<>>
    /\ last.deleteCalls = <<>>

====
